---- MODULE Spec2Model ----
(***************************************************************************)
(* Model of the home page of the blog (src/app/page.tsx): the pagination   *)
(* controller (fetchPosts / loadMorePosts / handleScroll), the feed        *)
(* partitioner and the search/filter engine (filterPosts and the useSearch *)
(* hook of src/unnamed/part_000).                                          *)
(*                                                                         *)
(* React is modelled as it runs: the component state (the useState cells)  *)
(* is one thing, the values captured by the closures of the last committed *)
(* render (`rendered`) are another.  Event handlers read the captured      *)
(* values, setState writes the state, and Render commits the state to a    *)
(* new set of closures and runs the effects whose dependencies changed.    *)
(***************************************************************************)
EXTENDS Integers, Sequences, FiniteSets, Bags, TLC

\* ------------------------------------------------------------------------
\* Program constants
\* ------------------------------------------------------------------------

\* limit(10) of both queries, and the `=== 10` of setHasMore
PageSize == 10

\* 1 hour = 3600000 milliseconds
OneHour == 3600000

\* ------------------------------------------------------------------------
\* Bounds of the model
\* ------------------------------------------------------------------------

\* getDocs calls that may be pending at the same time
MaxInflight == 2

\* getDocs calls issued by user actions (Try Again, scroll, Load More) in a run
MaxFetches == 3

\* how far (ms) a server timestamp may lie ahead of the local clock
Skew == 1

\* local clock when the page is opened, and the instants it is observed at
T0 == 2 * OneHour
ClockValues == {T0, T0 + 1}

VARIABLES
    db,                    \* the "posts" collection as the query orders it:
                           \* db[i] is the createdAt of the document with id i
    dbOk,                  \* the exported `db` handle is truthy
    now,                   \* the local wall clock, ms
    mounted,               \* the mount effects have run
    isFirebaseConfigured,  \* AuthProvider state
    allPosts, latestPosts, feedPosts, featuredPost,
    loading, loadingMore, error, lastVisible, hasMore,
    rendered,              \* the state captured by the closures of the last render
    inflight,              \* bag of pending getDocs calls
    issued,                \* getDocs calls issued by user actions so far
    searchTerm, selectedCategory,
    searchPosts,           \* the post list handed to the search/filter engine
    filteredPosts,         \* filterPosts(allPosts) of the home page
    sortedPosts,           \* filteredPosts as returned by the useSearch hook
    searchSuggestions,     \* the searchSuggestions memo
    showSuggestions, focusedSuggestion,       \* SearchBar state
    viewCount, viewedBy, viewRuns,            \* post page: the views counter
    likeDoc, postsCopy, bucketCopy, featuredCopy, likeRendered, likeOps,
    likeClicks,                               \* home page: like, share, report
    accountNow, accountPost, userPosts, editingPost, accountWrites,
                                              \* account page: editing a post
    createForm, createAuth, createLoading, uploadingImages, createError,
    createDocs, submission,                   \* create-post form
    authUser, userProfile, profileFetches, profileDocs, authEvents
                                              \* AuthProvider

pageVars == <<allPosts, latestPosts, feedPosts, featuredPost, lastVisible, hasMore>>
flagVars == <<loading, loadingMore, error>>
envVars == <<db, dbOk>>
searchVars == <<searchTerm, selectedCategory, searchPosts, filteredPosts,
                sortedPosts, searchSuggestions>>
barVars == <<showSuggestions, focusedSuggestion>>
viewVars == <<viewCount, viewedBy, viewRuns>>
likeVars == <<likeDoc, postsCopy, bucketCopy, featuredCopy, likeRendered,
              likeOps, likeClicks>>
accountVars == <<accountNow, accountPost, userPosts, editingPost, accountWrites>>
createVars == <<createForm, createAuth, createLoading, uploadingImages,
                createError, createDocs, submission>>
authVars == <<authUser, userProfile, profileFetches, profileDocs, authEvents>>
\* the state of the components other than the home page feed and its search
sideVars == <<barVars, viewVars, likeVars, accountVars, createVars, authVars>>
\* the state of the home page feed and its search
homeVars == <<envVars, now, mounted, isFirebaseConfigured, pageVars, flagVars,
              rendered, inflight, issued, searchVars>>
vars == <<db, dbOk, now, mounted, isFirebaseConfigured, allPosts, latestPosts,
          feedPosts, featuredPost, loading, loadingMore, error, lastVisible,
          hasMore, rendered, inflight, issued, searchTerm, selectedCategory,
          searchPosts, filteredPosts, sortedPosts, searchSuggestions,
          showSuggestions, focusedSuggestion, viewCount, viewedBy, viewRuns,
          likeDoc, postsCopy, bucketCopy, featuredCopy, likeRendered, likeOps,
          likeClicks, accountNow, accountPost, userPosts, editingPost,
          accountWrites, createForm, createAuth, createLoading,
          uploadingImages, createError, createDocs, submission, authUser,
          userProfile, profileFetches, profileDocs, authEvents>>

\* ------------------------------------------------------------------------
\* Helpers on sequences
\* ------------------------------------------------------------------------

Range(s) == {s[i] : i \in DOMAIN s}

IsPrefix(p, s) == Len(p) <= Len(s) /\ SubSeq(s, 1, Len(p)) = p

Suffix(s, n) == SubSeq(s, n + 1, Len(s))

NoDuplicates(s) == \A i, j \in DOMAIN s : i # j => s[i] # s[j]

Min(a, b) == IF a <= b THEN a ELSE b

\* ------------------------------------------------------------------------
\* createdAt values and their normalisation
\* ------------------------------------------------------------------------

\* The shapes a createdAt field arrives in.
Timestamp(ms) == [kind |-> "timestamp", ms |-> ms]   \* Firestore Timestamp (has toDate)
Millis(ms)    == [kind |-> "number", ms |-> ms]      \* epoch milliseconds
IsoString(ms) == [kind |-> "isostring", ms |-> ms]   \* a string Date can parse
BadString     == [kind |-> "badstring", ms |-> 0]    \* a string Date cannot parse
PlainMap      == [kind |-> "map", ms |-> 0]          \* {seconds, nanoseconds} without toDate
NullValue     == [kind |-> "null", ms |-> 0]         \* null (a pending serverTimestamp)
Undefined     == [kind |-> "undefined", ms |-> 0]    \* the field is absent

\* A Date: its time value, or NaN (an Invalid Date).
ValidDate(ms) == [nan |-> FALSE, ms |-> ms]
InvalidDate   == [nan |-> TRUE, ms |-> 0]

\* new Date(value)
NewDate(c) ==
    CASE c.kind = "number"    -> ValidDate(c.ms)
      [] c.kind = "isostring" -> ValidDate(c.ms)
      [] c.kind = "null"      -> ValidDate(0)
      [] OTHER                -> InvalidDate

\* post.createdAt?.toDate ? post.createdAt.toDate() : new Date(post.createdAt)
PostDate(c) ==
    IF c.kind = "timestamp" THEN ValidDate(c.ms) ELSE NewDate(c)

\* mutant: postDate > oneHourAgo
DateGT(d, t) == ~d.nan /\ d.ms > t

\* mutant: !(postDate < oneHourAgo), which is true of an Invalid Date
DateNotLT(d, t) == d.nan \/ d.ms >= t

\* postDate >= oneHourAgo : a comparison with NaN is false
DateGE(d, t) == ~d.nan /\ d.ms >= t

\* oneHourAgo = new Date(now.getTime() - 3600000)
OneHourAgo(t) == t - OneHour

\* the test of the forEach that buckets a post
IsRecent(c, t) == DateGE(PostDate(c), OneHourAgo(t))


\* ------------------------------------------------------------------------
\* The data source: the "posts" collection ordered by createdAt descending
\* ------------------------------------------------------------------------

\* Values of other types sort before the timestamps in a descending order.
LeadKinds == <<PlainMap, BadString, Undefined>>
Lead(n) == [i \in 1..n |-> LeadKinds[(i % 3) + 1]]

\* Server timestamps at and around the one-hour boundary, newest first.
RecentPatterns ==
    { <<>>,
      <<Timestamp(T0 + Skew)>>,
      <<Timestamp(T0 - 1), Timestamp(T0 - OneHour)>>,
      <<Timestamp(T0 + Skew), Timestamp(T0 - 1), Timestamp(T0 - OneHour)>> }

Olds(n) == [i \in 1..n |-> Timestamp(T0 - OneHour - 1)]

\* Numbers and null sort after the timestamps.
Tails == { <<>>, <<Millis(T0 - 1), NullValue>> }

LeadCounts == {0, 1, PageSize}
OldCounts == {0, PageSize - 1, 2 * PageSize}

Collections ==
    { Lead(l) \o r \o Olds(o) \o t :
        l \in LeadCounts, r \in RecentPatterns, o \in OldCounts, t \in Tails }

\* query(collection(db, "posts"), orderBy("createdAt", "desc"),
\*       startAfter(cursor), limit(10)) : the ids of the next page
Page(after) == [i \in 1..Min(PageSize, Len(db) - after) |-> after + i]

InitialQuery == [op |-> "fetchPosts", cursor |-> 0]
MoreQuery(cursor) == [op |-> "loadMorePosts", cursor |-> cursor]

Pending(op) == {q \in BagToSet(inflight) : q.op = op}

\* ------------------------------------------------------------------------
\* The feed partitioner and the merge of a page
\* ------------------------------------------------------------------------

\* the posts pushed to recentPosts / newRecentPosts
RecentOf(page, t) == SelectSeq(page, LAMBDA id : IsRecent(db[id], t))

\* the posts pushed to olderPosts / newOlderPosts
OlderOf(page, t) == SelectSeq(page, LAMBDA id : ~IsRecent(db[id], t))

\* mutant: prev => [...newPosts, ...prev]
MergePagePrepend(prev, new) == new \o prev

\* prev => [...prev, ...newPosts]
MergePage(prev, new) == prev \o new

\* setFeaturedPost of fetchPosts; 0 stands for null
FeaturedOf(recent, older, prev) ==
    IF Len(recent) > 0 THEN recent[1]
    ELSE IF Len(older) > 0 THEN older[1]
    ELSE prev

\* setHasMore(postsData.length === 10)
HasMoreOf(page) == Len(page) = PageSize

\* ------------------------------------------------------------------------
\* Component state and the closures of a render
\* ------------------------------------------------------------------------

NoError == "null"
All == <<"a", "l", "l">>

\* what the closures created by a render capture
View ==
    [ isFirebaseConfigured |-> isFirebaseConfigured,
      loading |-> loading, error |-> error,
      hasMore |-> hasMore, loadingMore |-> loadingMore,
      lastVisible |-> lastVisible,
      empty |-> (allPosts = <<>>) ]

InitPage ==
    /\ now = T0
    /\ mounted = FALSE
    /\ isFirebaseConfigured = FALSE
    /\ allPosts = <<>> /\ latestPosts = <<>> /\ feedPosts = <<>>
    /\ featuredPost = 0
    /\ loading = TRUE /\ loadingMore = FALSE /\ error = NoError
    /\ lastVisible = 0 /\ hasMore = TRUE
    /\ rendered = View
    /\ inflight = EmptyBag
    /\ issued = 0

InitSearchIdle ==
    /\ searchTerm = <<>>
    /\ selectedCategory = All
    /\ searchPosts = <<>>
    /\ filteredPosts = <<>>
    /\ sortedPosts = <<>>
    /\ searchSuggestions = <<>>

\* SearchBar: useState(false), useState(-1)
InitBar ==
    /\ showSuggestions = FALSE
    /\ focusedSuggestion = -1

\* the post page has not been opened
InitViewIdle ==
    /\ viewCount = 0
    /\ viewedBy = {}
    /\ viewRuns = <<>>

\* no post is shown to a user who could like it
InitLikeIdle ==
    /\ likeDoc = <<>>
    /\ postsCopy = <<>>
    /\ bucketCopy = <<>>
    /\ featuredCopy = <<>>
    /\ likeRendered = <<>>
    /\ likeOps = EmptyBag
    /\ likeClicks = 0

\* the account page has not been opened
InitAccountIdle ==
    /\ accountNow = 0
    /\ accountPost = <<>>
    /\ userPosts = <<>>
    /\ editingPost = FALSE
    /\ accountWrites = <<>>

\* the create-post form has not been opened
InitCreateIdle ==
    /\ createForm = <<>>
    /\ createAuth = <<>>
    /\ createLoading = FALSE
    /\ uploadingImages = FALSE
    /\ createError = ""
    /\ createDocs = <<>>
    /\ submission = <<>>

\* AuthProvider: nobody is signed in and nothing is pending
InitAuthIdle ==
    /\ authUser = 0
    /\ userProfile = 0
    /\ profileFetches = EmptyBag
    /\ profileDocs = {}
    /\ authEvents = 0

InitSideIdle ==
    /\ InitBar
    /\ InitViewIdle
    /\ InitLikeIdle
    /\ InitAccountIdle
    /\ InitCreateIdle
    /\ InitAuthIdle

\* the home page is not opened: nothing is fetched, typed or selected
InitHomeIdle ==
    /\ db = <<>>
    /\ dbOk = TRUE
    /\ InitPage
    /\ InitSearchIdle

Init ==
    /\ db \in Collections
    /\ dbOk \in BOOLEAN
    /\ InitPage
    /\ InitSearchIdle
    /\ InitSideIdle

\* a user action may issue one more getDocs call
MayIssue == issued < MaxFetches /\ BagCardinality(inflight) < MaxInflight

\* mutant: fetchPosts without its setError(null)
FetchPostsKeepError(cfg) ==
    IF ~cfg
    THEN /\ loading' = FALSE
         /\ error' = "Firebase is not configured"
         /\ UNCHANGED inflight
    ELSE IF ~dbOk
    THEN /\ loading' = FALSE
         /\ error' = "Database connection failed"
         /\ UNCHANGED inflight
    ELSE /\ loading' = TRUE
         /\ UNCHANGED error
         /\ inflight' = inflight (+) SetToBag({InitialQuery})

\* fetchPosts up to its await, run by a closure that captured cfg
FetchPosts(cfg) ==
    IF ~cfg
    THEN /\ loading' = FALSE
         /\ error' = "Firebase is not configured"
         /\ UNCHANGED inflight
    ELSE IF ~dbOk
    THEN /\ loading' = FALSE
         /\ error' = "Database connection failed"
         /\ UNCHANGED inflight
    ELSE /\ loading' = TRUE
         /\ error' = NoError
         /\ inflight' = inflight (+) SetToBag({InitialQuery})

\* the effects of the first commit: HomePage's fetchPosts effect, then
\* AuthProvider's effect
Mount ==
    /\ ~mounted
    /\ mounted' = TRUE
    /\ FetchPosts(rendered.isFirebaseConfigured)
    /\ isFirebaseConfigured' = TRUE
    /\ UNCHANGED <<envVars, now, pageVars, loadingMore, rendered, issued, searchVars, sideVars>>

\* a re-render commits the state; useEffect(..., [isFirebaseConfigured]) runs
\* fetchPosts again when the flag changed, and the scroll listener is
\* re-registered with the new closure
Render ==
    /\ mounted
    /\ rendered # View
    /\ rendered' = View
    /\ IF rendered.isFirebaseConfigured # isFirebaseConfigured
       THEN FetchPosts(isFirebaseConfigured)
       ELSE UNCHANGED <<loading, error, inflight>>
    /\ UNCHANGED <<envVars, now, mounted, isFirebaseConfigured, pageVars,
                   loadingMore, issued, searchVars, sideVars>>

\* the "Try Again" button of the error screen: onClick={fetchPosts}
TryAgain ==
    /\ mounted
    /\ ~rendered.loading
    /\ rendered.error # NoError
    /\ MayIssue
    /\ FetchPosts(rendered.isFirebaseConfigured)
    /\ issued' = IF inflight' # inflight THEN issued + 1 ELSE issued
    /\ UNCHANGED <<envVars, now, mounted, isFirebaseConfigured, pageVars,
                   loadingMore, rendered, searchVars, sideVars>>

\* the await of fetchPosts resolves: the rest of the try block and finally
FetchPostsSuccess ==
    /\ BagIn(InitialQuery, inflight)
    /\ inflight' = inflight (-) SetToBag({InitialQuery})
    /\ LET postsData == Page(0)
           recentPosts == RecentOf(postsData, now)
           olderPosts == OlderOf(postsData, now)
       IN  /\ allPosts' = postsData
           /\ latestPosts' = recentPosts
           /\ feedPosts' = olderPosts
           /\ featuredPost' = FeaturedOf(recentPosts, olderPosts, featuredPost)
           /\ lastVisible' = IF Len(postsData) > 0
                             THEN postsData[Len(postsData)] ELSE lastVisible
           /\ hasMore' = HasMoreOf(postsData)
    /\ loading' = FALSE
    /\ UNCHANGED <<envVars, now, mounted, isFirebaseConfigured, loadingMore,
                   error, rendered, issued, searchVars, sideVars>>

\* the await of fetchPosts rejects: catch and finally
FetchPostsFailure ==
    /\ BagIn(InitialQuery, inflight)
    /\ inflight' = inflight (-) SetToBag({InitialQuery})
    /\ error' = "Failed to load posts"
    /\ loading' = FALSE
    /\ UNCHANGED <<envVars, now, mounted, isFirebaseConfigured, pageVars,
                   loadingMore, rendered, issued, searchVars, sideVars>>

\* the guard of loadMorePosts, on the values its closure captured
LoadMoreGuard(r) ==
    r.hasMore /\ ~r.loadingMore /\ r.lastVisible # 0
    /\ r.isFirebaseConfigured /\ dbOk

\* loadMorePosts up to its await
LoadMorePosts ==
    IF ~LoadMoreGuard(rendered)
    THEN UNCHANGED <<loadingMore, inflight, issued>>
    ELSE /\ MayIssue
         /\ loadingMore' = TRUE
         /\ inflight' = inflight (+) SetToBag({MoreQuery(rendered.lastVisible)})
         /\ issued' = issued + 1

\* a scroll event within 1000px of the end of the document
HandleScroll ==
    /\ mounted
    /\ LoadMorePosts
    /\ UNCHANGED <<envVars, now, mounted, isFirebaseConfigured, pageVars,
                   loading, error, rendered, searchVars, sideVars>>

\* the "Load More Posts" button of the content screen
ClickLoadMore ==
    /\ mounted
    /\ ~rendered.loading /\ rendered.error = NoError /\ ~rendered.empty
    /\ rendered.hasMore /\ searchTerm = <<>> /\ selectedCategory = All
    /\ ~rendered.loadingMore
    /\ LoadMorePosts
    /\ UNCHANGED <<envVars, now, mounted, isFirebaseConfigured, pageVars,
                   loading, error, rendered, searchVars, sideVars>>

\* the await of loadMorePosts resolves
LoadMoreSuccess(q) ==
    /\ q \in Pending("loadMorePosts")
    /\ inflight' = inflight (-) SetToBag({q})
    /\ LET newPosts == Page(q.cursor)
       IN  IF Len(newPosts) > 0
           THEN /\ allPosts' = MergePage(allPosts, newPosts)
                /\ latestPosts' = MergePage(latestPosts, RecentOf(newPosts, now))
                /\ feedPosts' = MergePage(feedPosts, OlderOf(newPosts, now))
                /\ lastVisible' = newPosts[Len(newPosts)]
                /\ hasMore' = HasMoreOf(newPosts)
           ELSE /\ hasMore' = FALSE
                /\ UNCHANGED <<allPosts, latestPosts, feedPosts, lastVisible>>
    /\ loadingMore' = FALSE
    /\ UNCHANGED <<envVars, now, mounted, isFirebaseConfigured, featuredPost,
                   loading, error, rendered, issued, searchVars, sideVars>>

\* the await of loadMorePosts rejects: console.error, then finally
LoadMoreFailure(q) ==
    /\ q \in Pending("loadMorePosts")
    /\ inflight' = inflight (-) SetToBag({q})
    /\ loadingMore' = FALSE
    /\ UNCHANGED <<envVars, now, mounted, isFirebaseConfigured, pageVars,
                   loading, error, rendered, issued, searchVars, sideVars>>

\* the wall clock advances
Tick ==
    /\ \E t \in ClockValues : t > now /\ now' = t
    /\ UNCHANGED <<envVars, mounted, isFirebaseConfigured, pageVars, flagVars,
                   rendered, inflight, issued, searchVars, sideVars>>

Next ==
    \/ Mount
    \/ Render
    \/ TryAgain
    \/ FetchPostsSuccess
    \/ FetchPostsFailure
    \/ HandleScroll
    \/ ClickLoadMore
    \/ \E q \in Pending("loadMorePosts") : LoadMoreSuccess(q)
    \/ \E q \in Pending("loadMorePosts") : LoadMoreFailure(q)
    \/ Tick

Spec == Init /\ [][Next]_vars


\* ------------------------------------------------------------------------
\* Pagination controller: claims
\* ------------------------------------------------------------------------

\* pending getDocs calls issued by loadMorePosts
LoadMoreInFlight == BagCardinality(inflight) - CopiesIn(InitialQuery, inflight)

\* C1: at most one load-more fetch is in flight at any time, whatever the
\* interleaving of triggers, renders and responses.
C1_SingleLoadMoreInFlight == LoadMoreInFlight <= 1

\* C2: no post id occurs more than once in allPosts, latestPosts or feedPosts.
C2_NoDuplicateIds ==
    /\ NoDuplicates(allPosts)
    /\ NoDuplicates(latestPosts)
    /\ NoDuplicates(feedPosts)

\* a load-more trigger handled by up-to-date closures would issue a fetch
CanLoadMore == LoadMoreGuard(View)

\* C3: when the fetch of a load-more fails, the error is recorded and the
\* controller is left in a state from which a scroll trigger issues no fetch.
C3_LoadMoreFailureEntersError ==
    [][(\E q \in Pending("loadMorePosts") : LoadMoreFailure(q))
         => (error' # NoError /\ ~CanLoadMore')]_vars

\* the data source holds nothing after the cursor and hasMore says so
Exhausted == ~hasMore /\ lastVisible # 0 /\ Page(lastVisible) = <<>>

\* C4: after every completed page fetch hasMore = (records returned = 10),
\* and once a load-more has found the source exhausted every load-more
\* trigger is a no-op: no fetch, allPosts, buckets and cursor unchanged.
C4_HasMoreAndExhaustion ==
    [][ /\ FetchPostsSuccess => (hasMore' = (Len(allPosts') = PageSize))
        /\ \A q \in Pending("loadMorePosts") :
              LoadMoreSuccess(q) => (hasMore' = (Len(Page(q.cursor)) = PageSize))
        /\ (Exhausted /\ (HandleScroll \/ ClickLoadMore))
              => UNCHANGED <<inflight, allPosts, latestPosts, feedPosts, lastVisible>>
      ]_vars


\* the getDocs promises settle, and React commits pending updates
Fairness ==
    /\ WF_vars(Mount)
    /\ WF_vars(Render)
    /\ WF_vars(FetchPostsSuccess \/ FetchPostsFailure)
    /\ WF_vars(\E q \in Pending("loadMorePosts") :
                   LoadMoreSuccess(q) \/ LoadMoreFailure(q))

SpecLive == Init /\ [][Next]_vars /\ Fairness

\* the error screen with its "Try Again" button is what the user sees
RetryShown == mounted /\ ~rendered.loading /\ rendered.error # NoError

\* the click on "Try Again" clears the error and starts an initial load
RetryStartsLoad ==
    ENABLED (TryAgain /\ error' = NoError /\ loading'
                      /\ BagCardinality(inflight') = BagCardinality(inflight) + 1)

\* the initial load is over without an error: the first page is in allPosts
LoadedWithoutError ==
    (mounted /\ ~loading /\ error = NoError) => IsPrefix(Page(0), allPosts)

\* a failed initial fetch leaves the loading state with an error
FailureRecorded == [][FetchPostsFailure => (~loading' /\ error' # NoError)]_vars

\* C5 (as claimed): every initial load leaves the loading state, with the
\* posts populated and no error or with an error; a manual retry from the
\* error state always clears the error and starts a new initial load.
C5_InitialLoadCompletes ==
    /\ loading ~> ~loading
    /\ []LoadedWithoutError
    /\ FailureRecorded
    /\ []((RetryShown /\ MayIssue) => RetryStartsLoad)

\* C5 (amended): as above, but the retry clears the error and starts a load
\* only when the database handle exists; without it the retry records
\* "Database connection failed" again and fetches nothing.
C5_InitialLoadCompletesAmended ==
    /\ loading ~> ~loading
    /\ []LoadedWithoutError
    /\ FailureRecorded
    /\ []((RetryShown /\ MayIssue /\ dbOk) => RetryStartsLoad)
    /\ []((RetryShown /\ ~dbOk) =>
            (error = "Database connection failed" /\ ~loading
             /\ ~ENABLED (TryAgain /\ inflight' # inflight)))

\* C5 witness: a retry has been clicked after a failed initial fetch and its
\* load has completed without an error.
C5_Witness ==
    /\ issued > 0 /\ rendered.error = "Failed to load posts"
    /\ ~loading /\ error = NoError /\ allPosts # <<>>

\* C6: a successful load-more only appends: allPosts grows by the new page,
\* each new post goes to the end of exactly one bucket, and the posts that
\* were in a bucket keep their bucket and position.
C6_LoadMoreOnlyAppends ==
    [][\A q \in Pending("loadMorePosts") :
         LoadMoreSuccess(q) =>
           LET newAll == Suffix(allPosts', Len(allPosts))
               newLatest == Suffix(latestPosts', Len(latestPosts))
               newFeed == Suffix(feedPosts', Len(feedPosts))
           IN  /\ IsPrefix(allPosts, allPosts')
               /\ newAll = Page(q.cursor)
               /\ IsPrefix(latestPosts, latestPosts')
               /\ IsPrefix(feedPosts, feedPosts')
               /\ Range(newLatest) \cap Range(newFeed) = {}
               /\ Range(newLatest) \cup Range(newFeed) = Range(newAll)
               /\ Len(newLatest) + Len(newFeed) = Len(newAll)
      ]_vars

\* C6 witness: pages have been merged and a post bucketed as recent earlier
\* is still in latestPosts although it is older than one hour by now.
C6_Witness ==
    /\ Len(allPosts) > PageSize
    /\ \E id \in Range(latestPosts) : ~IsRecent(db[id], now)

\* createdAt lies in the 3,600,000 ms that precede t
WithinLastHour(c, t) ==
    ~PostDate(c).nan /\ t - OneHour <= PostDate(c).ms /\ PostDate(c).ms <= t

\* createdAt is not earlier than 3,600,000 ms before t
NotOlderThanOneHour(c, t) ==
    ~PostDate(c).nan /\ PostDate(c).ms >= t - OneHour

\* the page is split in order: the posts that satisfy P, and the others
SplitBy(page, recent, older, P(_)) ==
    /\ recent = SelectSeq(page, P)
    /\ older = SelectSeq(page, LAMBDA id : ~P(id))

\* every completed fetch buckets its page by P, evaluated at partition time
PartitionedBy(P(_)) ==
    /\ FetchPostsSuccess => SplitBy(allPosts', latestPosts', feedPosts', P)
    /\ \A q \in Pending("loadMorePosts") :
         LoadMoreSuccess(q) =>
           SplitBy(Page(q.cursor), Suffix(latestPosts', Len(latestPosts)),
                   Suffix(feedPosts', Len(feedPosts)), P)

\* C7 (as claimed): a fetched post goes to the recent bucket iff its createdAt
\* lies within the 3,600,000 ms preceding now, every other post goes to the
\* feed bucket, and both buckets keep the fetch order.
C7_RecentIffWithinLastHour ==
    [][PartitionedBy(LAMBDA id : WithinLastHour(db[id], now))]_vars

\* C7 (amended): a fetched post goes to the recent bucket iff its createdAt
\* is not earlier than now - 3,600,000 ms (a createdAt later than now is
\* recent too), every other post goes to the feed bucket, order is kept.
C7_RecentIffNotOlderThanOneHour ==
    [][PartitionedBy(LAMBDA id : NotOlderThanOneHour(db[id], now))]_vars

\* C7 witness: a page was partitioned into a non-empty recent bucket that
\* holds a post created exactly one hour before, and a non-empty feed bucket.
C7_Witness ==
    /\ feedPosts # <<>>
    /\ \E id \in Range(latestPosts) :
         PostDate(db[id]).ms = T0 - OneHour /\ db[id].kind = "timestamp"
    /\ \E id \in Range(latestPosts) : PostDate(db[id]).ms > T0

\* C8: featuredPost is the first post of the recent bucket if that bucket is
\* not empty, else the first post of the feed bucket, else there is none.
C8_FeaturedIsFirstOfBuckets ==
    featuredPost = IF latestPosts # <<>> THEN latestPosts[1]
                   ELSE IF feedPosts # <<>> THEN feedPosts[1]
                   ELSE 0

\* createdAt is missing or is no point in time
Unusable(c) == c.kind \in {"undefined", "null", "badstring", "map"}

Presentation(r) ==
    IF r.loading THEN "loading"
    ELSE IF r.error # NoError THEN "error"
    ELSE IF r.empty THEN "empty"
    ELSE "content"

\* a getDocs call of fetchPosts has not settled yet
FetchPending == BagIn(InitialQuery, inflight)

\* C22: exactly one of the loading, error, empty and content presentations
\* is shown, and the empty one only after a fetch returned zero posts, never
\* while a fetch is pending and never after a failed fetch.
C22_EmptyOnlyAfterEmptyFetch ==
    /\ Presentation(rendered) \in {"loading", "error", "empty", "content"}
    /\ Presentation(rendered) = "empty" =>
          /\ ~FetchPending
          /\ db = <<>>
          /\ error = NoError


\* ------------------------------------------------------------------------
\* Search/filter engine: strings
\* ------------------------------------------------------------------------

\* A string is a sequence of characters.
Chars == {"a", "A", "i", "I", "d", "D", " "}

\* one character of String.prototype.toLowerCase
LowerChar(c) ==
    CASE c = "A" -> "a"
      [] c = "I" -> "i"
      [] c = "D" -> "d"
      [] OTHER -> c

\* String.prototype.toLowerCase
ToLowerCase(s) == [i \in DOMAIN s |-> LowerChar(s[i])]

\* String.prototype.includes
Includes(s, sub) ==
    \E i \in 0..(Len(s) - Len(sub)) : SubSeq(s, i + 1, i + Len(sub)) = sub

\* String.prototype.indexOf, -1 when sub does not occur
IndexOf(s, sub) ==
    IF Includes(s, sub)
    THEN CHOOSE i \in 0..(Len(s) - Len(sub)) :
            /\ SubSeq(s, i + 1, i + Len(sub)) = sub
            /\ \A j \in 0..(i - 1) : SubSeq(s, j + 1, j + Len(sub)) # sub
    ELSE -1

RECURSIVE TrimStart(_)
TrimStart(s) ==
    IF s # <<>> /\ Head(s) = " " THEN TrimStart(Tail(s)) ELSE s

RECURSIVE TrimEnd(_)
TrimEnd(s) ==
    IF s # <<>> /\ s[Len(s)] = " " THEN TrimEnd(SubSeq(s, 1, Len(s) - 1)) ELSE s

\* String.prototype.trim
Trim(s) == TrimEnd(TrimStart(s))

\* ------------------------------------------------------------------------
\* Search/filter engine: relevance score
\* ------------------------------------------------------------------------

\* Math.log(n) in thousandths, n = 1..8
LogMilli == <<0, 693, 1099, 1386, 1609, 1792, 1946, 2079>>

\* the largest counter the model gives a post: likes + 1 is 2^31 - 1
ManyLikes == 2147483646
ManyViews == 1000

\* Math.log(n) in thousandths, for the arguments the posts of the model give
MathLog(n) ==
    CASE n \in DOMAIN LogMilli -> LogMilli[n]
      [] n = ManyViews + 1 -> 6909
      [] n = ManyLikes + 1 -> 21488

\* what the tags and views slots of a Post Record hold when the document has
\* no such field: values that only a read without the presence test sees
AbsentTags == << <<"D">>, <<"a", "d">> >>
AbsentViews == 7

\* mutant: the tags are read without the presence test
TagsOfUnguarded(post) == post.tags

\* post.tags when the field is present, otherwise nothing to iterate
TagsOf(post) == IF post.hasTags THEN post.tags ELSE <<>>

RECURSIVE SumSeq(_)
SumSeq(s) == IF s = <<>> THEN 0 ELSE Head(s) + SumSeq(Tail(s))

\* mutant: a match in the title scores nothing
GetRelevanceScoreNoTitle(post, term) ==
    IF Trim(term) = <<>> THEN 0
    ELSE LET searchLower == ToLowerCase(term)
             authorScore ==
                 IF Includes(ToLowerCase(post.authorName), searchLower)
                 THEN 30 ELSE 0
             tagScore ==
                 SumSeq([i \in DOMAIN TagsOf(post) |->
                           IF Includes(ToLowerCase(TagsOf(post)[i]), searchLower)
                           THEN 20 ELSE 0])
             categoryScore ==
                 IF post.category # <<>>
                    /\ Includes(ToLowerCase(post.category), searchLower)
                 THEN 15 ELSE 0
             contentScore ==
                 IF Includes(ToLowerCase(post.content), searchLower)
                 THEN 5 ELSE 0
             viewsOrZero == IF post.hasViews THEN post.views ELSE 0
         IN  1000 * (authorScore + tagScore + categoryScore + contentScore)
             + MathLog(post.likes + 1) * 2
             + MathLog(viewsOrZero + 1) * 1

\* mutant: matching tags score 20 once, however many match
GetRelevanceScoreTagsCapped(post, term) ==
    IF Trim(term) = <<>> THEN 0
    ELSE LET searchLower == ToLowerCase(term)
             titleScore ==
                 IF Includes(ToLowerCase(post.title), searchLower)
                 THEN (IF IndexOf(ToLowerCase(post.title), searchLower) = 0
                       THEN 100 ELSE 50)
                 ELSE 0
             authorScore ==
                 IF Includes(ToLowerCase(post.authorName), searchLower)
                 THEN 30 ELSE 0
             tagScore ==
                 IF \E i \in DOMAIN TagsOf(post) :
                        Includes(ToLowerCase(TagsOf(post)[i]), searchLower)
                 THEN 20 ELSE 0
             categoryScore ==
                 IF post.category # <<>>
                    /\ Includes(ToLowerCase(post.category), searchLower)
                 THEN 15 ELSE 0
             contentScore ==
                 IF Includes(ToLowerCase(post.content), searchLower)
                 THEN 5 ELSE 0
             viewsOrZero == IF post.hasViews THEN post.views ELSE 0
         IN  1000 * (titleScore + authorScore + tagScore + categoryScore
                     + contentScore)
             + MathLog(post.likes + 1) * 2
             + MathLog(viewsOrZero + 1) * 1

\* getRelevanceScore, in thousandths
GetRelevanceScore(post, term) ==
    IF Trim(term) = <<>> THEN 0
    ELSE LET searchLower == ToLowerCase(term)
             titleScore ==
                 IF Includes(ToLowerCase(post.title), searchLower)
                 THEN (IF IndexOf(ToLowerCase(post.title), searchLower) = 0
                       THEN 100 ELSE 50)
                 ELSE 0
             authorScore ==
                 IF Includes(ToLowerCase(post.authorName), searchLower)
                 THEN 30 ELSE 0
             tagScore ==
                 SumSeq([i \in DOMAIN TagsOf(post) |->
                           IF Includes(ToLowerCase(TagsOf(post)[i]), searchLower)
                           THEN 20 ELSE 0])
             categoryScore ==
                 IF post.category # <<>>
                    /\ Includes(ToLowerCase(post.category), searchLower)
                 THEN 15 ELSE 0
             contentScore ==
                 IF Includes(ToLowerCase(post.content), searchLower)
                 THEN 5 ELSE 0
             viewsOrZero == IF post.hasViews THEN post.views ELSE 0
         IN  1000 * (titleScore + authorScore + tagScore + categoryScore
                     + contentScore)
             + MathLog(post.likes + 1) * 2
             + MathLog(viewsOrZero + 1) * 1

RECURSIVE InsertByScoreAscending(_, _, _)
\* mutant: the lowest score comes first
InsertByScoreAscending(sorted, p, term) ==
    IF sorted = <<>> THEN <<p>>
    ELSE IF GetRelevanceScore(Head(sorted), term) <= GetRelevanceScore(p, term)
         THEN <<Head(sorted)>> \o InsertByScoreAscending(Tail(sorted), p, term)
         ELSE <<p>> \o sorted

RECURSIVE InsertByScore(_, _, _)
\* p is placed after every element whose score is not lower than its own
InsertByScore(sorted, p, term) ==
    IF sorted = <<>> THEN <<p>>
    ELSE IF GetRelevanceScore(Head(sorted), term) >= GetRelevanceScore(p, term)
         THEN <<Head(sorted)>> \o InsertByScore(Tail(sorted), p, term)
         ELSE <<p>> \o sorted

RECURSIVE SortByScore(_, _)
\* Array.prototype.sort((a, b) => bScore - aScore): stable, descending
SortByScore(posts, term) ==
    IF posts = <<>> THEN <<>>
    ELSE InsertByScore(SortByScore(SubSeq(posts, 1, Len(posts) - 1), term),
                       posts[Len(posts)], term)

\* ------------------------------------------------------------------------
\* Search/filter engine: the filter
\* ------------------------------------------------------------------------

\* the text fields of a post other than its category contain the term
MatchesText(post, term) ==
    \/ Includes(ToLowerCase(post.title), ToLowerCase(term))
    \/ Includes(ToLowerCase(post.content), ToLowerCase(term))
    \/ Includes(ToLowerCase(post.authorName), ToLowerCase(term))
    \/ (post.hasTags /\ \E i \in DOMAIN post.tags :
          Includes(ToLowerCase(post.tags[i]), ToLowerCase(term)))

\* mutant: every post passes the search predicate
MatchesSearchAlways(post, term) == TRUE

\* matchesSearch of filterPosts (home page)
MatchesSearch(post, term) ==
    \/ term = <<>>
    \/ MatchesText(post, term)
    \/ (post.category # <<>>
        /\ Includes(ToLowerCase(post.category), ToLowerCase(term)))

\* matchesSearch of the useSearch hook
HookMatchesSearch(post, term) ==
    \/ term = <<>>
    \/ MatchesText(post, term)

\* mutant: the category is compared ignoring case
MatchesCategoryIgnoreCase(post, cat) ==
    cat = All \/ ToLowerCase(post.category) = ToLowerCase(cat)

\* mutant: "all" is compared like any other category
MatchesCategoryNoAll(post, cat) == post.category = cat

\* selectedCategory === "all" || post.category === selectedCategory
MatchesCategory(post, cat) == cat = All \/ post.category = cat

\* filterPosts of the home page
FilterPosts(posts, term, cat) ==
    LET filtered == SelectSeq(posts, LAMBDA post :
                        MatchesSearch(post, term) /\ MatchesCategory(post, cat))
    IN  IF Trim(term) # <<>> THEN SortByScore(filtered, term) ELSE filtered

\* filteredPosts of the useSearch hook
HookFilteredPosts(posts, term, cat) ==
    SelectSeq(posts, LAMBDA post :
        MatchesCategory(post, cat) /\ HookMatchesSearch(post, term))

\* sortedPosts of the useSearch hook
HookSortedPosts(posts, term, cat) ==
    IF Trim(term) = <<>> THEN HookFilteredPosts(posts, term, cat)
    ELSE SortByScore(HookFilteredPosts(posts, term, cat), term)


\* ------------------------------------------------------------------------
\* Suggestion index builder
\* ------------------------------------------------------------------------

\* slice(0, 20)
SuggestionLimit == 20

\* title words must be longer than this
MinWordLength == 3

RECURSIVE Split(_, _)
\* String.prototype.split with a one-character separator
Split(s, sep) ==
    IF \A i \in DOMAIN s : s[i] # sep THEN <<s>>
    ELSE LET i == CHOOSE k \in DOMAIN s :
                    s[k] = sep /\ \A j \in 1..(k - 1) : s[j] # sep
         IN  <<SubSeq(s, 1, i - 1)>> \o Split(SubSeq(s, i + 1, Len(s)), sep)

\* the characters of the prefix a suggestion type gives its map key
TypePrefix(type) ==
    CASE type = "author" -> <<"a", "u", "t", "h", "o", "r">>
      [] type = "tag" -> <<"t", "a", "g">>
      [] type = "title" -> <<"t", "i", "t", "l", "e">>

\* `${type}:${token}`
SuggestionKey(type, token) == TypePrefix(type) \o <<":">> \o token

\* post.title.toLowerCase().split(' ').filter(word => word.length > 3)
TitleWords(post) ==
    SelectSeq(Split(ToLowerCase(post.title), " "),
              LAMBDA word : Len(word) > MinWordLength)

\* the tokens one post contributes, in the order the loop body visits them
TokensOf(post) ==
    <<[type |-> "author", token |-> post.authorName]>>
    \o [i \in DOMAIN TagsOf(post) |-> [type |-> "tag", token |-> TagsOf(post)[i]]]
    \o [i \in DOMAIN TitleWords(post) |->
            [type |-> "title", token |-> TitleWords(post)[i]]]

RECURSIVE AllTokens(_)
\* the tokens of allPosts.forEach, in visiting order
AllTokens(posts) ==
    IF posts = <<>> THEN <<>>
    ELSE AllTokens(SubSeq(posts, 1, Len(posts) - 1)) \o TokensOf(posts[Len(posts)])

\* the Map after suggestions.set(key, {type, count: (suggestions.get(key)
\* ?.count || 0) + 1}) ran for the tokens in order: a key keeps the position
\* of its first insertion and counts its insertions
SuggestionMap(tokens) ==
    LET keys == [i \in DOMAIN tokens |->
                    SuggestionKey(tokens[i].type, tokens[i].token)]
        firsts == SelectSeq([i \in DOMAIN tokens |-> i],
                            LAMBDA i : \A j \in 1..(i - 1) : keys[j] # keys[i])
    IN  [n \in DOMAIN firsts |->
            [key |-> keys[firsts[n]],
             type |-> tokens[firsts[n]].type,
             count |-> Cardinality({j \in DOMAIN tokens : keys[j] = keys[firsts[n]]})]]

\* ([key, {type, count}]) => ({type, value: key.split(':')[1], count})
EntryToSuggestion(entry) ==
    [type |-> entry.type, value |-> Split(entry.key, ":")[2],
     count |-> entry.count]

\* mutant: the lowest count comes first
PlaceByCountAscending(entries, i) ==
    Cardinality({j \in DOMAIN entries : entries[j].count < entries[i].count})
    + Cardinality({j \in 1..i : entries[j].count = entries[i].count})

\* where entry i stands after the sort: behind the entries with a higher
\* count and behind the earlier entries with the same count
PlaceByCount(entries, i) ==
    Cardinality({j \in DOMAIN entries : entries[j].count > entries[i].count})
    + Cardinality({j \in 1..i : entries[j].count = entries[i].count})

\* sort((a, b) => b.count - a.count): stable, descending
SortByCount(entries) ==
    [place \in DOMAIN entries |->
        entries[CHOOSE i \in DOMAIN entries : PlaceByCount(entries, i) = place]]

\* Array.prototype.slice(0, n)
SliceTo(s, n) == SubSeq(s, 1, IF Len(s) < n THEN Len(s) ELSE n)

\* the map entries that survive filter(suggestion => suggestion.count > 1)
Qualifying(posts) ==
    SelectSeq(SuggestionMap(AllTokens(posts)), LAMBDA entry : entry.count > 1)

\* the searchSuggestions memo of the home page and of the useSearch hook
SearchSuggestions(posts) ==
    LET entries == SuggestionMap(AllTokens(posts))
        mapped == [i \in DOMAIN entries |-> EntryToSuggestion(entries[i])]
        kept == SelectSeq(mapped, LAMBDA suggestion : suggestion.count > 1)
    IN  SliceTo(SortByCount(kept), SuggestionLimit)

\* ------------------------------------------------------------------------
\* Search/filter engine: state machine
\* ------------------------------------------------------------------------

\* longest post list handed to the engine
MaxSearchPosts == 3

\* Post Records the engine is run on
PostPool ==
    { [id |-> 1, title |-> <<"A", "i", " ", "d">>, content |-> <<"a">>,
       authorName |-> <<"D", "i">>, hasTags |-> TRUE, tags |-> << <<"a", "i">> >>,
       category |-> <<"A", "i">>, likes |-> 1, hasViews |-> FALSE, views |-> 0],
      [id |-> 2, title |-> <<"d">>, content |-> <<"A", "I">>,
       authorName |-> <<"I">>, hasTags |-> FALSE, tags |-> <<>>,
       category |-> <<"a", "i">>, likes |-> 0, hasViews |-> TRUE, views |-> 2],
      [id |-> 3, title |-> <<"D", "a">>, content |-> <<"i">>,
       authorName |-> <<"A">>, hasTags |-> TRUE,
       tags |-> << <<"D">>, <<"a", "d">> >>,
       category |-> <<"D">>, likes |-> 3, hasViews |-> TRUE, views |-> 0],
      [id |-> 4, title |-> <<"I">>, content |-> <<"d">>,
       authorName |-> <<"a">>, hasTags |-> TRUE, tags |-> <<>>,
       category |-> <<>>, likes |-> 1, hasViews |-> FALSE, views |-> 0],
      [id |-> 5, title |-> <<"a", " ", "i">>, content |-> <<" ">>,
       authorName |-> <<"d", "I">>, hasTags |-> TRUE, tags |-> << <<"A", "i">> >>,
       category |-> <<"A", "i">>, likes |-> 2, hasViews |-> TRUE, views |-> 1],
      [id |-> 6, title |-> <<"i", " ", "d">>, content |-> <<"i">>,
       authorName |-> <<"I">>, hasTags |-> FALSE, tags |-> AbsentTags,
       category |-> <<"A", "i">>, likes |-> 0, hasViews |-> FALSE,
       views |-> AbsentViews],
      [id |-> 7, title |-> <<"I">>, content |-> <<" ", "d">>,
       authorName |-> <<"a">>, hasTags |-> TRUE, tags |-> <<>>,
       category |-> <<>>, likes |-> ManyLikes, hasViews |-> TRUE,
       views |-> ManyViews] }

\* post lists without a repeated id, up to MaxSearchPosts long
PostLists ==
    UNION { { s \in [1..n -> PostPool] :
                \A i, j \in 1..n : i # j => s[i].id # s[j].id } :
            n \in 0..MaxSearchPosts }

\* what the user types
SearchTerms ==
    { <<>>, <<"a">>, <<"A", "I">>, <<" ">>, <<"d">>, <<"a", " ">> }

\* what the user selects
CategoryChoices ==
    { All, <<"A", "i">>, <<"a", "i">>, <<"D">>, <<"d", "a">> }

InitSearch ==
    /\ db = <<>>
    /\ dbOk = TRUE
    /\ InitPage
    /\ searchPosts \in PostLists
    /\ searchTerm = <<>>
    /\ selectedCategory = All
    /\ filteredPosts = FilterPosts(searchPosts, <<>>, All)
    /\ sortedPosts = HookSortedPosts(searchPosts, <<>>, All)
    /\ searchSuggestions = SearchSuggestions(searchPosts)
    /\ InitSideIdle

\* mutant: the relevance sort orders the array it was handed
InputAfterSortInPlace(posts, term, cat) ==
    IF Trim(term) # <<>> THEN SortByScore(posts, term) ELSE posts

\* the array handed to the engine, after the run: filter() builds a new
\* array and the sort orders that one (the hook sorts a spread copy)
InputAfter(posts, term, cat) == posts

\* the derived values of the render that follows a change of term or category
Recompute(term, cat) ==
    /\ filteredPosts' = FilterPosts(searchPosts, term, cat)
    /\ sortedPosts' = HookSortedPosts(searchPosts, term, cat)
    /\ searchPosts' = InputAfter(searchPosts, term, cat)

\* handleSearchChange / setSearchTerm
HandleSearchChange(value) ==
    /\ searchTerm' = value
    /\ Recompute(value, selectedCategory)
    /\ UNCHANGED <<envVars, now, mounted, isFirebaseConfigured, pageVars,
                   flagVars, rendered, inflight, issued, sideVars,
                   selectedCategory,
                   searchSuggestions>>

\* handleCategoryChange / setSelectedCategory
HandleCategoryChange(category) ==
    /\ selectedCategory' = category
    /\ Recompute(searchTerm, category)
    /\ UNCHANGED <<envVars, now, mounted, isFirebaseConfigured, pageVars,
                   flagVars, rendered, inflight, issued, sideVars,
                   searchTerm,
                   searchSuggestions>>

\* mutant: the selected category survives
ClearFiltersKeepCategory ==
    /\ searchTerm' = <<>>
    /\ Recompute(<<>>, selectedCategory)
    /\ UNCHANGED <<envVars, now, mounted, isFirebaseConfigured, pageVars,
                   flagVars, rendered, inflight, issued, sideVars,
                   searchSuggestions, selectedCategory>>

\* clearFilters
ClearFilters ==
    /\ searchTerm' = <<>>
    /\ selectedCategory' = All
    /\ Recompute(<<>>, All)
    /\ UNCHANGED <<envVars, now, mounted, isFirebaseConfigured, pageVars,
                   flagVars, rendered, inflight, issued, sideVars,
                   searchSuggestions>>

NextSearch ==
    \/ \E value \in SearchTerms : HandleSearchChange(value)
    \/ \E category \in CategoryChoices : HandleCategoryChange(category)
    \/ ClearFilters

SpecSearch == InitSearch /\ [][NextSearch]_vars

\* ------------------------------------------------------------------------
\* Search/filter engine: claims
\* ------------------------------------------------------------------------

\* C10: with an empty searchTerm and a selectedCategory other than "all",
\* the engine returns exactly the posts whose category equals
\* selectedCategory (case-sensitive), in their original order.
C10_CategoryExactMatch ==
    (searchTerm = <<>> /\ selectedCategory # All) =>
        LET expected ==
                SelectSeq(searchPosts, LAMBDA post : post.category = selectedCategory)
        IN  /\ filteredPosts = expected
            /\ sortedPosts = expected

\* C10 witness: category "ai" is selected with an empty term, the list holds
\* a post of category "ai" and, before it, one of category "Ai" that is left
\* out.
C10_Witness ==
    /\ searchTerm = <<>>
    /\ selectedCategory = <<"a", "i">>
    /\ filteredPosts # <<>>
    /\ Len(searchPosts) > Len(filteredPosts)
    /\ searchPosts[1].category = <<"A", "i">>

\* a string field of the post contains the term, ignoring case
FieldContains(field, term) == Includes(ToLowerCase(field), ToLowerCase(term))

\* the term occurs in the title, the content, the author name, a tag or the
\* category of the post
OccursInPost(post, term) ==
    \/ FieldContains(post.title, term)
    \/ FieldContains(post.content, term)
    \/ FieldContains(post.authorName, term)
    \/ \E i \in DOMAIN TagsOf(post) : FieldContains(TagsOf(post)[i], term)
    \/ FieldContains(post.category, term)

\* the posts of the list that are expected in the result
ExpectedToPass(post) ==
    /\ (searchTerm = <<>> \/ OccursInPost(post, searchTerm))
    /\ (selectedCategory = All \/ post.category = selectedCategory)

\* C11: in the home page engine and in the useSearch hook a post passes the
\* search predicate iff the term is empty or occurs, ignoring case, in its
\* title, content, author name, some tag or its category.
C11_SearchPredicateAllFields ==
    \A i \in DOMAIN searchPosts :
        /\ searchPosts[i] \in Range(filteredPosts) <=> ExpectedToPass(searchPosts[i])
        /\ searchPosts[i] \in Range(sortedPosts) <=> ExpectedToPass(searchPosts[i])

\* C12: with searchTerm "" and selectedCategory "all" the engine returns the
\* post set it was given, same elements in the same order.
C12_EmptyQueryPreservesOrder ==
    (searchTerm = <<>> /\ selectedCategory = All) =>
        /\ filteredPosts = searchPosts
        /\ sortedPosts = searchPosts

\* C12 witness: nothing is typed or selected and the list holds three posts
\* of different categories and different popularity.
C12_Witness ==
    /\ searchTerm = <<>>
    /\ selectedCategory = All
    /\ Len(searchPosts) = 3
    /\ filteredPosts = searchPosts
    /\ searchPosts[1].category # searchPosts[2].category
    /\ searchPosts[1].likes < searchPosts[2].likes

\* the position of a post in the list handed to the engine
PositionOf(post) == CHOOSE i \in DOMAIN searchPosts : searchPosts[i] = post

\* result holds posts of the input in their original relative order
IsOrderedSubsequence(result) ==
    /\ Range(result) \subseteq Range(searchPosts)
    /\ \A i, j \in DOMAIN result :
           i < j => PositionOf(result[i]) < PositionOf(result[j])

\* result is ordered by non-increasing score
IsRanked(result) ==
    \A i, j \in DOMAIN result :
        i < j => GetRelevanceScore(result[i], searchTerm)
                    >= GetRelevanceScore(result[j], searchTerm)

\* C13: the result is ordered by non-increasing relevance score when
\* searchTerm.trim() is non-empty, and is a subsequence of the input in its
\* original order when searchTerm.trim() is empty (also for a term of
\* whitespace only).
C13_RankedOrOriginalOrder ==
    /\ Trim(searchTerm) # <<>> => IsRanked(filteredPosts) /\ IsRanked(sortedPosts)
    /\ Trim(searchTerm) = <<>> =>
           IsOrderedSubsequence(filteredPosts) /\ IsOrderedSubsequence(sortedPosts)

\* C13 witness: the term is a single blank, two posts contain it and a
\* third one was filtered out.
C13_Witness ==
    /\ searchTerm = <<" ">>
    /\ Len(filteredPosts) = 2
    /\ Len(searchPosts) = 3
    /\ sortedPosts = filteredPosts

\* the query occurs in the title of the post
InTitle(post) == FieldContains(post.title, searchTerm)

\* the query occurs in the content of the post and nowhere else
OnlyInContent(post) ==
    /\ FieldContains(post.content, searchTerm)
    /\ ~FieldContains(post.title, searchTerm)
    /\ ~FieldContains(post.authorName, searchTerm)
    /\ ~\E i \in DOMAIN TagsOf(post) : FieldContains(TagsOf(post)[i], searchTerm)
    /\ ~FieldContains(post.category, searchTerm)

\* a comes before b in the result of the home page engine
RankedBefore(a, b) ==
    \E i, j \in DOMAIN filteredPosts :
        i < j /\ filteredPosts[i] = a /\ filteredPosts[j] = b

\* 2 ln(likes + 1) + ln(views + 1), in thousandths
PopularityBoost(post) ==
    2 * MathLog(post.likes + 1)
    + MathLog((IF post.hasViews THEN post.views ELSE 0) + 1)

\* the least lead, in thousandths, of a title match over a content-only match
TitleLead == 1000 * (50 - 5)

\* C14 (as stated): of two posts in the result, one with the query in its
\* title is ranked before one with the query only in its content, whatever
\* their likes and views are.
C14_TitleBeforeContentOnly ==
    \A a, b \in Range(filteredPosts) :
        (InTitle(a) /\ OnlyInContent(b)) => RankedBefore(a, b)

\* C14 (amended): for a query that is not blank, a post with the query in its
\* title is ranked before a post with the query only in its content when the
\* popularity boost of the latter exceeds that of the former by less than 45.
C14_TitleBeforeContentOnlyAmended ==
    \A a, b \in Range(filteredPosts) :
        (/\ Trim(searchTerm) # <<>>
         /\ InTitle(a) /\ OnlyInContent(b)
         /\ PopularityBoost(b) - PopularityBoost(a) < TitleLead)
            => RankedBefore(a, b)

\* C14 witness: the query is "d"; the post that has it only in its content
\* is the more popular one and precedes a title match in the input, and the
\* title match is ranked first.
C14_Witness ==
    /\ searchTerm = <<"d">>
    /\ \E a, b \in Range(filteredPosts) :
          /\ InTitle(a) /\ OnlyInContent(b)
          /\ PopularityBoost(b) > PopularityBoost(a)
          /\ PopularityBoost(b) - PopularityBoost(a) < TitleLead
          /\ PositionOf(b) < PositionOf(a)
          /\ RankedBefore(a, b)

\* the textual part of the score as the scoring table gives it
TextualScore(post, term) ==
    LET q == ToLowerCase(term)
        title == ToLowerCase(post.title)
        startsWith == Len(q) <= Len(title) /\ SubSeq(title, 1, Len(q)) = q
        matchingTags == {i \in DOMAIN TagsOf(post) :
                            Includes(ToLowerCase(TagsOf(post)[i]), q)}
    IN  (IF startsWith THEN 100 ELSE IF Includes(title, q) THEN 50 ELSE 0)
        + (IF Includes(ToLowerCase(post.authorName), q) THEN 30 ELSE 0)
        + 20 * Cardinality(matchingTags)
        + (IF Includes(ToLowerCase(post.category), q) THEN 15 ELSE 0)
        + (IF Includes(ToLowerCase(post.content), q) THEN 5 ELSE 0)

\* C15: for a query that is not blank, getRelevanceScore is the textual
\* score of the scoring table (title 100 at index 0 else 50, author 30, 20
\* per matching tag, category 15, content 5) plus 2 ln(likes+1) + ln(views+1).
C15_ScoreIsTablePlusBoost ==
    Trim(searchTerm) # <<>> =>
        \A i \in DOMAIN searchPosts :
            GetRelevanceScore(searchPosts[i], searchTerm)
                = 1000 * TextualScore(searchPosts[i], searchTerm)
                  + PopularityBoost(searchPosts[i])

\* C15 witness: the query "d" is ranked over a post whose title starts with
\* it and which has two matching tags, and a post with it later in the title.
C15_Witness ==
    /\ searchTerm = <<"d">>
    /\ \E a, b \in Range(sortedPosts) :
          /\ IndexOf(ToLowerCase(a.title), <<"d">>) = 0
          /\ Len(a.tags) = 2
          /\ TextualScore(a, searchTerm) = 155
          /\ IndexOf(ToLowerCase(b.title), <<"d">>) > 0
          /\ RankedBefore(a, b)

\* C16: whenever ranking is applied, every post of the ranked result has a
\* strictly positive textual score, in the home page engine and in the hook.
C16_RankedPostsMatchTextually ==
    Trim(searchTerm) # <<>> =>
        /\ \A i \in DOMAIN filteredPosts :
               TextualScore(filteredPosts[i], searchTerm) > 0
        /\ \A i \in DOMAIN sortedPosts :
               TextualScore(sortedPosts[i], searchTerm) > 0

\* C16 witness: a ranked result that leaves out a post with likes, whose
\* score would be its popularity boost alone.
C16_Witness ==
    /\ Trim(searchTerm) # <<>>
    /\ filteredPosts # <<>>
    /\ sortedPosts # <<>>
    /\ \E i \in DOMAIN searchPosts :
          /\ searchPosts[i] \notin Range(filteredPosts)
          /\ searchPosts[i].likes > 0
          /\ TextualScore(searchPosts[i], searchTerm) = 0
          /\ GetRelevanceScore(searchPosts[i], searchTerm) > 0

\* C20: clearFilters sets searchTerm to "" and selectedCategory to "all", and
\* the result computed afterwards is the full post set in its original order.
C20_ClearFiltersRestoresAll ==
    [][ClearFilters =>
          /\ searchTerm' = <<>>
          /\ selectedCategory' = All
          /\ filteredPosts' = searchPosts'
          /\ sortedPosts' = searchPosts']_vars

\* C20 witness: a term and a category are set and the result leaves posts
\* out, so that clearFilters changes all three.
C20_Witness ==
    /\ searchTerm # <<>>
    /\ selectedCategory # All
    /\ Len(filteredPosts) < Len(searchPosts)
    /\ filteredPosts # <<>>
    /\ ENABLED ClearFilters


\* the document has neither a tags nor a views field
LacksOptionalFields(post) == ~post.hasTags /\ ~post.hasViews

\* the same post with an empty tag list and a views counter of 0
WithNeutralFields(post) ==
    IF LacksOptionalFields(post)
    THEN [post EXCEPT !.hasTags = TRUE, !.tags = <<>>,
                      !.hasViews = TRUE, !.views = 0]
    ELSE post

\* C21: a post without tags and views field is handled like one with an
\* empty tag list and 0 views: no tag suggestion, no tag score, view boost 0,
\* and the filter predicate decides on the other fields.
C21_MissingFieldsAreNeutral ==
    /\ searchSuggestions
          = SearchSuggestions([i \in DOMAIN searchPosts |->
                                  WithNeutralFields(searchPosts[i])])
    /\ \A i \in DOMAIN searchPosts :
          LacksOptionalFields(searchPosts[i]) =>
              LET post == searchPosts[i]
                  neutral == WithNeutralFields(post)
              IN  /\ GetRelevanceScore(post, searchTerm)
                        = IF Trim(searchTerm) = <<>> THEN 0
                          ELSE 1000 * TextualScore(neutral, searchTerm)
                               + 2 * MathLog(post.likes + 1)
                  /\ post \in Range(filteredPosts) <=> ExpectedToPass(neutral)

\* C21 witness: a ranked result holds a post without tags and views field
\* next to a post with tags, and the suggestions are not empty.
C21_Witness ==
    /\ Trim(searchTerm) # <<>>
    /\ searchSuggestions # <<>>
    /\ \E i, j \in DOMAIN filteredPosts :
          /\ LacksOptionalFields(filteredPosts[i])
          /\ filteredPosts[j].hasTags /\ filteredPosts[j].tags # <<>>

MaxSuggestPosts == 3

\* one more distinct tag than the suggestion list can hold
TagLetters ==
    <<"b", "c", "e", "f", "g", "h", "j", "k", "l", "m", "n", "o", "p", "q",
      "r", "s", "u", "v", "w", "x", "y">>
ManyTags == [i \in 1..(SuggestionLimit + 1) |-> <<"t", TagLetters[i]>>]

\* the fields of a Post Record the suggestions do not read
PlainPost(id, authorName, title) ==
    [id |-> id, title |-> title, content |-> <<>>, authorName |-> authorName,
     hasTags |-> FALSE, tags |-> AbsentTags, category |-> <<>>, likes |-> 0,
     hasViews |-> FALSE, views |-> AbsentViews]

\* a Post Record with a tags field
TaggedPost(id, authorName, title, tags) ==
    [PlainPost(id, authorName, title) EXCEPT !.hasTags = TRUE, !.tags = tags]

\* Post Records the suggestions are built from: many shared tags, tags and
\* title words with a colon, a post without tags, a tag typed twice
SuggestPool ==
    { TaggedPost(1, <<"a", "d">>, <<"D", "a", "i", "d", " ", "a", "i">>, ManyTags),
      TaggedPost(2, <<"a", "d">>, <<"d", "a", "i", "d">>, ManyTags),
      TaggedPost(3, <<"d", "i">>, <<"a", ":", "i", "d", " ", "d">>,
                 <<ManyTags[SuggestionLimit + 1], <<"a", ":", "i">>,
                   <<"a", ":", "d">> >>),
      TaggedPost(4, <<"d", "i">>, <<"A", ":", "I", "D">>,
                 << <<"a", ":", "i">>, <<"a", ":", "d">>, <<"d", "d">> >>),
      PlainPost(5, <<"a", ":">>, <<"i">>),
      TaggedPost(6, <<"i">>, <<"i", "i", "i", "i">>,
                 << <<"i", "i">>, <<"i", "i">> >>) }

InitSuggest ==
    /\ db = <<>>
    /\ dbOk = TRUE
    /\ InitPage
    /\ InitSearchIdle
    /\ InitSideIdle

\* setAllPosts(prev => [...prev, post]) and the render that follows it
SetAllPosts(post) ==
    /\ Len(searchPosts) < MaxSuggestPosts
    /\ \A i \in DOMAIN searchPosts : searchPosts[i].id # post.id
    /\ searchPosts' = Append(searchPosts, post)
    /\ searchSuggestions' = SearchSuggestions(searchPosts')
    /\ filteredPosts' = FilterPosts(searchPosts', searchTerm, selectedCategory)
    /\ sortedPosts' = HookSortedPosts(searchPosts', searchTerm, selectedCategory)
    /\ UNCHANGED <<envVars, now, mounted, isFirebaseConfigured, pageVars,
                   flagVars, rendered, inflight, issued, sideVars,
                   searchTerm,
                   selectedCategory>>

NextSuggest == \E post \in SuggestPool : SetAllPosts(post)

SpecSuggest == InitSuggest /\ [][NextSuggest]_vars

\* ------------------------------------------------------------------------
\* Suggestion index builder: claims
\* ------------------------------------------------------------------------

\* the tags carried by the posts
TagsInUse ==
    UNION { Range(TagsOf(searchPosts[i])) : i \in DOMAIN searchPosts }

\* the posts that carry the tag
PostsWithTag(tag) ==
    {i \in DOMAIN searchPosts : tag \in Range(TagsOf(searchPosts[i]))}

\* how often the tag occurs in the tag lists of all posts
Occurrences(tag) ==
    SumSeq([i \in DOMAIN searchPosts |->
               Cardinality({k \in DOMAIN TagsOf(searchPosts[i]) :
                               TagsOf(searchPosts[i])[k] = tag})])

\* the entries of searchSuggestions that offer the tag
TagEntries(tag) ==
    {i \in DOMAIN searchSuggestions :
        searchSuggestions[i].type = "tag" /\ searchSuggestions[i].value = tag}

\* C17: a tag that appears on exactly one post is not in searchSuggestions,
\* and a tag that appears on two or more posts is, with count equal to its
\* number of occurrences.
C17_TagThreshold ==
    \A tag \in TagsInUse :
        /\ Cardinality(PostsWithTag(tag)) = 1 => TagEntries(tag) = {}
        /\ Cardinality(PostsWithTag(tag)) >= 2 =>
               \E i \in TagEntries(tag) :
                   searchSuggestions[i].count = Occurrences(tag)

\* the lowest count of an entry kept in the list
LowestKept ==
    CHOOSE c \in {searchSuggestions[i].count : i \in DOMAIN searchSuggestions} :
        \A i \in DOMAIN searchSuggestions : searchSuggestions[i].count >= c

\* C18: searchSuggestions has at most 20 entries, is ordered by
\* non-increasing count, and every qualifying candidate with a count above
\* that of some kept entry is itself kept.
C18_CapKeepsHighestCounts ==
    /\ Len(searchSuggestions) <= SuggestionLimit
    /\ \A i, j \in DOMAIN searchSuggestions :
           i < j => searchSuggestions[i].count >= searchSuggestions[j].count
    /\ \A i \in DOMAIN searchSuggestions : searchSuggestions[i].count > 1
    /\ Len(Qualifying(searchPosts)) <= SuggestionLimit =>
           Len(searchSuggestions) = Len(Qualifying(searchPosts))
    /\ Len(Qualifying(searchPosts)) > SuggestionLimit =>
           /\ Len(searchSuggestions) = SuggestionLimit
           /\ Cardinality({i \in DOMAIN Qualifying(searchPosts) :
                             Qualifying(searchPosts)[i].count > LowestKept})
              = Cardinality({i \in DOMAIN searchSuggestions :
                               searchSuggestions[i].count > LowestKept})

\* C18 witness: more than 20 candidates qualify, the list is full, and the
\* entry with the highest count, which was inserted after 20 others, leads it.
C18_Witness ==
    /\ Len(Qualifying(searchPosts)) > SuggestionLimit
    /\ Len(searchSuggestions) = SuggestionLimit
    /\ searchSuggestions[1].count > searchSuggestions[SuggestionLimit].count
    /\ searchSuggestions[1].value = ManyTags[SuggestionLimit + 1]

\* C19: every entry carries as value the complete author name, tag or title
\* word it was aggregated from, and no two entries share type and value.
C19_ValueIsWholeToken ==
    /\ \A i \in DOMAIN searchSuggestions :
           \E k \in DOMAIN AllTokens(searchPosts) :
               /\ AllTokens(searchPosts)[k].type = searchSuggestions[i].type
               /\ AllTokens(searchPosts)[k].token = searchSuggestions[i].value
    /\ \A i, j \in DOMAIN searchSuggestions :
           (/\ searchSuggestions[i].type = searchSuggestions[j].type
            /\ searchSuggestions[i].value = searchSuggestions[j].value) => i = j


\* ------------------------------------------------------------------------
\* Post page: the views counter
\* ------------------------------------------------------------------------

\* runs of incrementViewCount (page visits, tabs) the model follows
MaxViewRuns == 3

\* uids of logged-in visitors; 0 stands for `user` being null
ViewUsers == {1, 2}

InitViews ==
    /\ InitHomeIdle
    /\ InitSideIdle

\* the [postId] effect calls incrementViewCount: it returns at once for a
\* visitor who is not logged in, otherwise it awaits getDoc(postRef)
IncrementViewCount(user) ==
    /\ Len(viewRuns) < MaxViewRuns
    /\ viewRuns' = Append(viewRuns,
                          [user |-> user,
                           pc |-> IF user = 0 THEN "done" ELSE "getDoc"])
    /\ UNCHANGED <<viewCount, viewedBy>>
    /\ UNCHANGED <<homeVars, barVars, likeVars, accountVars, createVars, authVars>>

\* getDoc resolves: viewedBy is read and the run decides whether to write
ViewGetDocResolves(i) ==
    /\ viewRuns[i].pc = "getDoc"
    /\ viewRuns' = [viewRuns EXCEPT ![i].pc =
                       IF viewRuns[i].user \in viewedBy THEN "done"
                       ELSE "updateDoc"]
    /\ UNCHANGED <<viewCount, viewedBy>>
    /\ UNCHANGED <<homeVars, barVars, likeVars, accountVars, createVars, authVars>>

\* updateDoc(postRef, {views: increment(1), viewedBy: arrayUnion(uid)})
ViewUpdateDocApplies(i) ==
    /\ viewRuns[i].pc = "updateDoc"
    /\ viewCount' = viewCount + 1
    /\ viewedBy' = viewedBy \cup {viewRuns[i].user}
    /\ viewRuns' = [viewRuns EXCEPT ![i].pc = "done"]
    /\ UNCHANGED <<homeVars, barVars, likeVars, accountVars, createVars, authVars>>

\* getDoc or updateDoc rejects: the catch block logs the error
ViewRequestFails(i) ==
    /\ viewRuns[i].pc \in {"getDoc", "updateDoc"}
    /\ viewRuns' = [viewRuns EXCEPT ![i].pc = "done"]
    /\ UNCHANGED <<viewCount, viewedBy>>
    /\ UNCHANGED <<homeVars, barVars, likeVars, accountVars, createVars, authVars>>

NextViews ==
    \/ \E user \in ViewUsers \cup {0} : IncrementViewCount(user)
    \/ \E i \in DOMAIN viewRuns : ViewGetDocResolves(i)
    \/ \E i \in DOMAIN viewRuns : ViewUpdateDocApplies(i)
    \/ \E i \in DOMAIN viewRuns : ViewRequestFails(i)

SpecViews == InitViews /\ [][NextViews]_vars

\* C24: views is incremented at most once per distinct logged-in user, who
\* then is in viewedBy, whatever the number and interleaving of
\* incrementViewCount runs; a run of a visitor who is not logged in never
\* reads or writes.
C24_OneViewPerUser ==
    /\ viewCount <= Cardinality(viewedBy)
    /\ viewedBy \subseteq ViewUsers
    /\ \A i \in DOMAIN viewRuns : viewRuns[i].user = 0 => viewRuns[i].pc = "done"


\* ------------------------------------------------------------------------
\* Home page: like, share and report of one post
\* ------------------------------------------------------------------------

\* clicks on the like, share and report buttons the model follows
MaxLikeClicks == 3

\* the uid of the logged-in user; OtherUser liked the post before
Me == 1
OtherUser == 2

\* the counters of a post as a copy in React state holds them
PostCounters(likedBy) ==
    [likes |-> Len(likedBy), likedBy |-> likedBy, shares |-> 0, reports |-> 0]

InitLike ==
    /\ InitHomeIdle
    /\ InitBar /\ InitViewIdle /\ InitAccountIdle /\ InitCreateIdle /\ InitAuthIdle
    /\ \E likedBy \in {<<>>, <<OtherUser>>} :
          /\ likeDoc = [likes |-> Len(likedBy), likedBy |-> Range(likedBy),
                        shares |-> 0, reports |-> 0]
          /\ postsCopy = PostCounters(likedBy)
          /\ bucketCopy = PostCounters(likedBy)
          /\ \E present \in BOOLEAN :
                featuredCopy = [present |-> present, post |-> PostCounters(likedBy)]
    /\ likeRendered = postsCopy
    /\ likeOps = EmptyBag
    /\ likeClicks = 0

\* handleLike up to its await: isLiked is taken from the posts of the
\* closure, then updateDoc is sent
HandleLike ==
    /\ likeClicks < MaxLikeClicks
    /\ likeClicks' = likeClicks + 1
    /\ LET isLiked == Me \in Range(likeRendered.likedBy)
       IN  likeOps' = likeOps (+) SetToBag({[kind |-> "like", isLiked |-> isLiked]})
    /\ UNCHANGED <<likeDoc, postsCopy, bucketCopy, featuredCopy, likeRendered>>
    /\ UNCHANGED <<homeVars, barVars, viewVars, accountVars, createVars, authVars>>

\* handleShare up to its await
HandleShare ==
    /\ likeClicks < MaxLikeClicks
    /\ likeClicks' = likeClicks + 1
    /\ likeOps' = likeOps (+) SetToBag({[kind |-> "share", isLiked |-> FALSE]})
    /\ UNCHANGED <<likeDoc, postsCopy, bucketCopy, featuredCopy, likeRendered>>
    /\ UNCHANGED <<homeVars, barVars, viewVars, accountVars, createVars, authVars>>

\* handleReport up to its await (the user confirmed)
HandleReport ==
    /\ likeClicks < MaxLikeClicks
    /\ likeClicks' = likeClicks + 1
    /\ likeOps' = likeOps (+) SetToBag({[kind |-> "report", isLiked |-> FALSE]})
    /\ UNCHANGED <<likeDoc, postsCopy, bucketCopy, featuredCopy, likeRendered>>
    /\ UNCHANGED <<homeVars, barVars, viewVars, accountVars, createVars, authVars>>

\* the document after updateDoc: increment, arrayUnion, arrayRemove
DocAfter(doc, op) ==
    CASE op.kind = "like" /\ ~op.isLiked ->
            [doc EXCEPT !.likes = @ + 1, !.likedBy = @ \cup {Me}]
      [] op.kind = "like" /\ op.isLiked ->
            [doc EXCEPT !.likes = @ - 1, !.likedBy = @ \ {Me}]
      [] op.kind = "share" -> [doc EXCEPT !.shares = @ + 1]
      [] op.kind = "report" -> [doc EXCEPT !.reports = @ + 1]

\* the functional update the handler applies to the copy in posts / allPosts
CopyAfter(p, op) ==
    CASE op.kind = "like" /\ ~op.isLiked ->
            [p EXCEPT !.likes = @ + 1, !.likedBy = Append(@, Me)]
      [] op.kind = "like" /\ op.isLiked ->
            [p EXCEPT !.likes = @ - 1,
                      !.likedBy = SelectSeq(@, LAMBDA id : id # Me)]
      [] op.kind = "share" -> [p EXCEPT !.shares = @ + 1]
      [] op.kind = "report" -> [p EXCEPT !.reports = @ + 1]

\* updateDoc resolves and the rest of the try block runs: setPosts and
\* setAllPosts with the same update, setFeaturedPost for a like or a share
\* of the featured post; latestPosts and feedPosts have no setter call
LikeOpResolves(op) ==
    /\ BagIn(op, likeOps)
    /\ likeOps' = likeOps (-) SetToBag({op})
    /\ likeDoc' = DocAfter(likeDoc, op)
    /\ postsCopy' = CopyAfter(postsCopy, op)
    /\ featuredCopy' =
          IF featuredCopy.present /\ op.kind \in {"like", "share"}
          THEN [featuredCopy EXCEPT !.post = CopyAfter(@, op)]
          ELSE featuredCopy
    /\ UNCHANGED <<bucketCopy, likeRendered, likeClicks>>
    /\ UNCHANGED <<homeVars, barVars, viewVars, accountVars, createVars, authVars>>

\* updateDoc rejects: the catch block logs the error
LikeOpRejects(op) ==
    /\ BagIn(op, likeOps)
    /\ likeOps' = likeOps (-) SetToBag({op})
    /\ UNCHANGED <<likeDoc, postsCopy, bucketCopy, featuredCopy, likeRendered,
                   likeClicks>>
    /\ UNCHANGED <<homeVars, barVars, viewVars, accountVars, createVars, authVars>>

\* the page re-renders: the handlers now close over the updated posts
LikeRender ==
    /\ likeRendered # postsCopy
    /\ likeRendered' = postsCopy
    /\ UNCHANGED <<likeDoc, postsCopy, bucketCopy, featuredCopy, likeOps, likeClicks>>
    /\ UNCHANGED <<homeVars, barVars, viewVars, accountVars, createVars, authVars>>

NextLike ==
    \/ HandleLike
    \/ HandleShare
    \/ HandleReport
    \/ \E op \in BagToSet(likeOps) : LikeOpResolves(op)
    \/ \E op \in BagToSet(likeOps) : LikeOpRejects(op)
    \/ LikeRender

SpecLike == InitLike /\ [][NextLike]_vars

\* C27: for any interleaving of handleLike runs of one user the uid occurs
\* at most once in likedBy, in the database and in posts / allPosts, and
\* likes minus the size of likedBy stays what it was (0).
C27_LikesMatchLikedBy ==
    /\ NoDuplicates(postsCopy.likedBy)
    /\ postsCopy.likes - Len(postsCopy.likedBy) = 0
    /\ likeDoc.likes - Cardinality(likeDoc.likedBy) = 0

\* the counters two copies of the post must agree on
SameCounters(p, q) ==
    /\ p.likes = q.likes
    /\ p.likedBy = q.likedBy
    /\ p.shares = q.shares
    /\ p.reports = q.reports

\* C28: after a successful like, share or report every in-memory copy of the
\* post (posts / allPosts, latestPosts / feedPosts, featuredPost) carries the
\* same likes, likedBy, shares and reports.
C28_CopiesAgree ==
    /\ SameCounters(postsCopy, bucketCopy)
    /\ featuredCopy.present => SameCounters(postsCopy, featuredCopy.post)


\* ------------------------------------------------------------------------
\* Account page: editing one's own post
\* ------------------------------------------------------------------------

\* updateDoc calls of handleUpdatePost that may be pending at once
MaxAccountWrites == 2

ThirtyMinutes == 30 * 60 * 1000

\* the instants (ms after the post's creation) the clock takes
AccountTimes == {0, ThirtyMinutes - 1, ThirtyMinutes, ThirtyMinutes + 1}

EditTitles == {"a", "b"}

NotEditing == [id |-> "null", editTitle |-> ""]

InitAccount ==
    /\ InitHomeIdle
    /\ InitBar /\ InitViewIdle /\ InitLikeIdle /\ InitCreateIdle /\ InitAuthIdle
    /\ accountNow = 0
    /\ accountPost = [createdAt |-> 0, title |-> "a", updated |-> FALSE, updatedAt |-> 0]
    /\ userPosts = <<>>
    /\ editingPost = NotEditing
    /\ accountWrites = EmptyBag

\* the page is loaded and fetchUserPosts runs: isEditable is computed from
\* the clock of this moment and stored with the post
FetchUserPosts ==
    /\ userPosts' = << [id |-> "p", title |-> accountPost.title,
                        createdAt |-> accountPost.createdAt,
                        isEditable |-> accountNow - accountPost.createdAt < ThirtyMinutes] >>
    /\ editingPost' = NotEditing
    /\ UNCHANGED <<accountNow, accountPost, accountWrites>>
    /\ UNCHANGED <<homeVars, barVars, viewVars, likeVars, createVars, authVars>>

\* the Edit button, shown for a post whose stored isEditable is true
HandleEditPost(i) ==
    /\ i \in DOMAIN userPosts
    /\ editingPost.id # userPosts[i].id
    /\ userPosts[i].isEditable
    /\ editingPost' = [id |-> userPosts[i].id, editTitle |-> userPosts[i].title]
    /\ UNCHANGED <<accountNow, accountPost, userPosts, accountWrites>>
    /\ UNCHANGED <<homeVars, barVars, viewVars, likeVars, createVars, authVars>>

\* typing in the title input of the edit form
SetEditTitle(t) ==
    /\ editingPost.id # "null"
    /\ editingPost.editTitle # t
    /\ editingPost' = [editingPost EXCEPT !.editTitle = t]
    /\ UNCHANGED <<accountNow, accountPost, userPosts, accountWrites>>
    /\ UNCHANGED <<homeVars, barVars, viewVars, likeVars, createVars, authVars>>

\* the Cancel button of the edit form
CancelEdit ==
    /\ editingPost.id # "null"
    /\ editingPost' = NotEditing
    /\ UNCHANGED <<accountNow, accountPost, userPosts, accountWrites>>
    /\ UNCHANGED <<homeVars, barVars, viewVars, likeVars, createVars, authVars>>

\* the Save button: handleUpdatePost up to its await; updatedAt is the
\* client's new Date() of the call
HandleUpdatePost ==
    /\ editingPost.id # "null"
    /\ BagCardinality(accountWrites) < MaxAccountWrites
    /\ accountWrites' = accountWrites (+)
          SetToBag({[id |-> editingPost.id, title |-> editingPost.editTitle,
                     updatedAt |-> accountNow]})
    /\ UNCHANGED <<accountNow, accountPost, userPosts, editingPost>>
    /\ UNCHANGED <<homeVars, barVars, viewVars, likeVars, createVars, authVars>>

\* updateDoc resolves: the document is written, then the copy in userPosts
\* is updated and the edit form is closed
UpdateDocResolves(w) ==
    /\ BagIn(w, accountWrites)
    /\ accountWrites' = accountWrites (-) SetToBag({w})
    /\ accountPost' = [accountPost EXCEPT !.title = w.title, !.updated = TRUE,
                                          !.updatedAt = w.updatedAt]
    /\ userPosts' = [i \in DOMAIN userPosts |->
                        IF userPosts[i].id = w.id
                        THEN [userPosts[i] EXCEPT !.title = w.title]
                        ELSE userPosts[i]]
    /\ editingPost' = NotEditing
    /\ UNCHANGED accountNow
    /\ UNCHANGED <<homeVars, barVars, viewVars, likeVars, createVars, authVars>>

\* updateDoc rejects: the catch block logs the error
UpdateDocRejects(w) ==
    /\ BagIn(w, accountWrites)
    /\ accountWrites' = accountWrites (-) SetToBag({w})
    /\ UNCHANGED <<accountNow, accountPost, userPosts, editingPost>>
    /\ UNCHANGED <<homeVars, barVars, viewVars, likeVars, createVars, authVars>>

\* time passes
AccountTick ==
    /\ \E t \in AccountTimes : t > accountNow /\ accountNow' = t
    /\ UNCHANGED <<accountPost, userPosts, editingPost, accountWrites>>
    /\ UNCHANGED <<homeVars, barVars, viewVars, likeVars, createVars, authVars>>

NextAccount ==
    \/ FetchUserPosts
    \/ \E i \in DOMAIN userPosts : HandleEditPost(i)
    \/ \E t \in EditTitles : SetEditTitle(t)
    \/ CancelEdit
    \/ HandleUpdatePost
    \/ \E w \in BagToSet(accountWrites) : UpdateDocResolves(w)
    \/ \E w \in BagToSet(accountWrites) : UpdateDocRejects(w)
    \/ AccountTick

SpecAccount == InitAccount /\ [][NextAccount]_vars

\* C25: handleUpdatePost writes a post only while fewer than 30 minutes have
\* elapsed since its creation: no pending or applied update carries a time
\* of 30 minutes or more after createdAt.
C25_NoUpdateAfterThirtyMinutes ==
    /\ accountPost.updated =>
          accountPost.updatedAt - accountPost.createdAt < ThirtyMinutes
    /\ \A w \in BagToSet(accountWrites) :
          w.updatedAt - accountPost.createdAt < ThirtyMinutes


\* ------------------------------------------------------------------------
\* Create-post form
\* ------------------------------------------------------------------------

\* images that can be selected in the form
MaxImages == 2

\* submissions of the form the model follows
MaxSubmits == 2

TitleValues == { <<>>, <<" ">>, <<" ", "a", " ">> }
ContentValues == { <<" ">>, <<"d">> }
CategoryValues == {"", "tech"}

EmptyForm == [title |-> <<>>, content |-> <<>>, category |-> "", images |-> 0]

NoSubmission(attempts) ==
    [pc |-> "idle", attempts |-> attempts, uid |-> 0, form |-> EmptyForm, uploaded |-> 0]

InitCreate ==
    /\ InitHomeIdle
    /\ InitBar /\ InitViewIdle /\ InitLikeIdle /\ InitAccountIdle /\ InitAuthIdle
    /\ createForm = EmptyForm
    /\ \E cfg, dbReady \in BOOLEAN :
          createAuth = [user |-> 0, isFirebaseConfigured |-> cfg, db |-> dbReady]
    /\ createLoading = FALSE
    /\ uploadingImages = FALSE
    /\ createError = ""
    /\ createDocs = <<>>
    /\ submission = NoSubmission(0)

\* useAuth delivers another user (0 = null)
SetCreateUser(u) ==
    /\ createAuth.user # u
    /\ createAuth' = [createAuth EXCEPT !.user = u]
    /\ UNCHANGED <<createForm, createLoading, uploadingImages, createError,
                   createDocs, submission>>
    /\ UNCHANGED <<homeVars, barVars, viewVars, likeVars, accountVars, authVars>>

SetTitle(v) ==
    /\ createForm.title # v
    /\ createForm' = [createForm EXCEPT !.title = v]
    /\ UNCHANGED <<createAuth, createLoading, uploadingImages, createError,
                   createDocs, submission>>
    /\ UNCHANGED <<homeVars, barVars, viewVars, likeVars, accountVars, authVars>>

SetContent(v) ==
    /\ createForm.content # v
    /\ createForm' = [createForm EXCEPT !.content = v]
    /\ UNCHANGED <<createAuth, createLoading, uploadingImages, createError,
                   createDocs, submission>>
    /\ UNCHANGED <<homeVars, barVars, viewVars, likeVars, accountVars, authVars>>

SetCategory(c) ==
    /\ createForm.category # c
    /\ createForm' = [createForm EXCEPT !.category = c]
    /\ UNCHANGED <<createAuth, createLoading, uploadingImages, createError,
                   createDocs, submission>>
    /\ UNCHANGED <<homeVars, barVars, viewVars, likeVars, accountVars, authVars>>

\* the file input, disabled while loading or uploading
HandleImageUpload ==
    /\ ~(createLoading \/ uploadingImages)
    /\ createForm.images < MaxImages
    /\ createForm' = [createForm EXCEPT !.images = @ + 1]
    /\ UNCHANGED <<createAuth, createLoading, uploadingImages, createError,
                   createDocs, submission>>
    /\ UNCHANGED <<homeVars, barVars, viewVars, likeVars, accountVars, authVars>>

\* the remove button of an image, disabled while loading or uploading
RemoveImage ==
    /\ ~(createLoading \/ uploadingImages)
    /\ createForm.images > 0
    /\ createForm' = [createForm EXCEPT !.images = @ - 1]
    /\ UNCHANGED <<createAuth, createLoading, uploadingImages, createError,
                   createDocs, submission>>
    /\ UNCHANGED <<homeVars, barVars, viewVars, likeVars, accountVars, authVars>>

\* !title.trim() || !content.trim() || !category, without the trim
RequiredFieldsMissingNoTrim(form) ==
    form.title = <<>> \/ form.content = <<>> \/ form.category = ""

\* !title.trim() || !content.trim() || !category
RequiredFieldsMissing(form) ==
    Trim(form.title) = <<>> \/ Trim(form.content) = <<>> \/ form.category = ""

\* the message handleSubmit returns early with, "" when it goes on
ValidationError(auth, form) ==
    IF auth.user = 0 THEN "You must be logged in to create a post"
    ELSE IF ~auth.isFirebaseConfigured THEN "Firebase is not properly configured"
    ELSE IF ~auth.db THEN "Database connection not available"
    ELSE IF RequiredFieldsMissing(form) THEN "Please fill in all required fields"
    ELSE ""

\* handleSubmit up to its first await; the submit button is disabled while
\* loading or uploading
HandleSubmit ==
    /\ ~(createLoading \/ uploadingImages)
    /\ submission.attempts < MaxSubmits
    /\ IF ValidationError(createAuth, createForm) # ""
       THEN /\ createError' = ValidationError(createAuth, createForm)
            /\ submission' = NoSubmission(submission.attempts + 1)
            /\ UNCHANGED <<createLoading, uploadingImages>>
       ELSE /\ createLoading' = TRUE
            /\ createError' = ""
            /\ uploadingImages' = (createForm.images > 0)
            /\ submission' = [pc |-> IF createForm.images > 0 THEN "uploading"
                                                               ELSE "addDoc",
                              attempts |-> submission.attempts + 1,
                              uid |-> createAuth.user,
                              form |-> createForm,
                              uploaded |-> 0]
    /\ UNCHANGED <<createForm, createAuth, createDocs>>
    /\ UNCHANGED <<homeVars, barVars, viewVars, likeVars, accountVars, authVars>>

\* uploadImageToCloudinary resolves for the next image of the loop
UploadResolves ==
    /\ submission.pc = "uploading"
    /\ LET done == submission.uploaded + 1 = submission.form.images
       IN  /\ submission' = [submission EXCEPT !.uploaded = @ + 1,
                                !.pc = IF done THEN "addDoc" ELSE "uploading"]
           /\ uploadingImages' = IF done THEN FALSE ELSE uploadingImages
    /\ UNCHANGED <<createForm, createAuth, createLoading, createError, createDocs>>
    /\ UNCHANGED <<homeVars, barVars, viewVars, likeVars, accountVars, authVars>>

\* uploadImageToCloudinary rejects: the loop rethrows, catch and finally run
UploadRejects ==
    /\ submission.pc = "uploading"
    /\ createError' = "Failed to create post"
    /\ createLoading' = FALSE
    /\ uploadingImages' = FALSE
    /\ submission' = NoSubmission(submission.attempts)
    /\ UNCHANGED <<createForm, createAuth, createDocs>>
    /\ UNCHANGED <<homeVars, barVars, viewVars, likeVars, accountVars, authVars>>

\* addDoc resolves: the document is written from the values the handler
\* closed over, the form is cleared, finally runs
AddDocResolves ==
    /\ submission.pc = "addDoc"
    /\ createDocs' = Append(createDocs,
          [title |-> Trim(submission.form.title),
           content |-> Trim(submission.form.content),
           category |-> submission.form.category,
           images |-> submission.uploaded,
           authorId |-> submission.uid])
    /\ createForm' = EmptyForm
    /\ createLoading' = FALSE
    /\ uploadingImages' = FALSE
    /\ submission' = NoSubmission(submission.attempts)
    /\ UNCHANGED <<createAuth, createError>>
    /\ UNCHANGED <<homeVars, barVars, viewVars, likeVars, accountVars, authVars>>

\* addDoc rejects: catch and finally run
AddDocRejects ==
    /\ submission.pc = "addDoc"
    /\ createError' = "Failed to create post"
    /\ createLoading' = FALSE
    /\ uploadingImages' = FALSE
    /\ submission' = NoSubmission(submission.attempts)
    /\ UNCHANGED <<createForm, createAuth, createDocs>>
    /\ UNCHANGED <<homeVars, barVars, viewVars, likeVars, accountVars, authVars>>

NextCreate ==
    \/ \E u \in {0, Me} : SetCreateUser(u)
    \/ \E v \in TitleValues : SetTitle(v)
    \/ \E v \in ContentValues : SetContent(v)
    \/ \E c \in CategoryValues : SetCategory(c)
    \/ HandleImageUpload
    \/ RemoveImage
    \/ HandleSubmit
    \/ UploadResolves
    \/ UploadRejects
    \/ AddDocResolves
    \/ AddDocRejects

SpecCreate == InitCreate /\ [][NextCreate]_vars

\* what the form must satisfy, at the moment it is submitted, for a document
\* to be written
SubmitConditions ==
    /\ createAuth.user # 0
    /\ Trim(createForm.title) # <<>>
    /\ Trim(createForm.content) # <<>>
    /\ createForm.category # ""

\* a step in which a submission of the form starts
SubmitStep == submission'.attempts = submission.attempts + 1

\* a step in which a submission finishes without a written document
EndsWithoutDocument ==
    /\ createDocs' = createDocs
    /\ submission'.pc = "idle"
    /\ SubmitStep \/ submission.pc # "idle"

\* C26: a submission goes on to the uploads and addDoc only if the user is
\* logged in, title and content are non-blank after trimming and a category
\* is selected; a document is written only by such a submission after all of
\* its images were uploaded; every submission that ends without a document
\* sets an error message, writes nothing, keeps the form fields and leaves
\* loading and uploadingImages false.
C26_SubmitWritesOnlyValidPosts ==
    [][ /\ (SubmitStep /\ submission'.pc # "idle") => SubmitConditions
        /\ createDocs' # createDocs =>
              /\ submission.pc = "addDoc"
              /\ submission.uploaded = submission.form.images
              /\ submission.uid # 0
              /\ createDocs' = Append(createDocs, createDocs'[Len(createDocs')])
              /\ createDocs'[Len(createDocs')].title # <<>>
              /\ createDocs'[Len(createDocs')].content # <<>>
              /\ createDocs'[Len(createDocs')].category # ""
              /\ createDocs'[Len(createDocs')].images = submission.form.images
        /\ EndsWithoutDocument =>
              /\ createError' # ""
              /\ createForm' = createForm
              /\ ~createLoading'
              /\ ~uploadingImages'
      ]_vars

\* a post with two uploaded images was written, and a later submission
\* failed on an upload after the form was filled again
C26_Witness ==
    /\ Len(createDocs) = 1
    /\ createDocs[1].images = 2
    /\ createError = "Failed to create post"
    /\ createForm.images > 0
    /\ submission.pc = "idle"
    /\ ~createLoading


\* ------------------------------------------------------------------------
\* SearchBar: the suggestion dropdown
\* ------------------------------------------------------------------------

\* slice(0, 8) of filteredSuggestions
MaxShown == 8

\* the posts the home page builds the searchSuggestions prop from
BarPool == {post \in SuggestPool : post.id \in {1, 2, 6}}

\* what the user types into the input
BarTerms == { <<>>, <<"t">>, <<"t", "b">>, <<"i">> }

\* the filteredSuggestions of a render
FilteredSuggestionsOf(suggestions, term) ==
    SliceTo(SelectSeq(suggestions,
                      LAMBDA suggestion :
                          Includes(ToLowerCase(suggestion.value), ToLowerCase(term))),
            MaxShown)

FilteredSuggestions == FilteredSuggestionsOf(searchSuggestions, searchTerm)

InitBarSpec ==
    /\ InitHomeIdle
    /\ InitBar
    /\ InitViewIdle /\ InitLikeIdle /\ InitAccountIdle /\ InitCreateIdle /\ InitAuthIdle

\* onSearchChange(value): the home page's handleSearchChange and the render
\* that follows it
OnSearchChange(value) ==
    /\ searchTerm' = value
    /\ Recompute(value, selectedCategory)
    /\ UNCHANGED <<envVars, now, mounted, isFirebaseConfigured, pageVars,
                   flagVars, rendered, inflight, issued, selectedCategory,
                   searchSuggestions>>
    /\ UNCHANGED <<viewVars, likeVars, accountVars, createVars, authVars>>

\* a handler that changes nothing outside the SearchBar
BarOnly ==
    UNCHANGED <<homeVars, viewVars, likeVars, accountVars, createVars, authVars>>

\* handleSearchChange of the SearchBar: filteredSuggestions is the list of
\* the render the handler was created in
BarHandleSearchChange(value) ==
    /\ value # searchTerm
    /\ OnSearchChange(value)
    /\ showSuggestions' = (Len(value) > 0 /\ Len(FilteredSuggestions) > 0)
    /\ focusedSuggestion' = -1

\* handleSuggestionClick from a click on an entry of the dropdown;
\* inputRef.current.focus() runs onFocus of the same render when the click
\* had moved the focus to the entry
BarSuggestionClick(i) ==
    /\ showSuggestions
    /\ i \in DOMAIN FilteredSuggestions
    /\ OnSearchChange(FilteredSuggestions[i].value)
    /\ \E focusMoved \in BOOLEAN :
          showSuggestions' = (focusMoved /\ Len(searchTerm) > 0)
    /\ UNCHANGED focusedSuggestion

\* handleKeyDown, ArrowDown
BarArrowDown ==
    /\ showSuggestions /\ Len(FilteredSuggestions) > 0
    /\ focusedSuggestion' =
          IF focusedSuggestion < Len(FilteredSuggestions) - 1
          THEN focusedSuggestion + 1 ELSE 0
    /\ UNCHANGED showSuggestions
    /\ BarOnly

\* handleKeyDown, ArrowUp
BarArrowUp ==
    /\ showSuggestions /\ Len(FilteredSuggestions) > 0
    /\ focusedSuggestion' =
          IF focusedSuggestion > 0
          THEN focusedSuggestion - 1 ELSE Len(FilteredSuggestions) - 1
    /\ UNCHANGED showSuggestions
    /\ BarOnly

\* handleKeyDown, Enter on a focused entry: handleSuggestionClick of
\* filteredSuggestions[focusedSuggestion]; the input has the focus already.
\* With no entry at that index the handler throws on suggestion.value
\* before it has changed anything.
BarEnter ==
    /\ showSuggestions /\ Len(FilteredSuggestions) > 0
    /\ focusedSuggestion >= 0
    /\ focusedSuggestion + 1 \in DOMAIN FilteredSuggestions
    /\ OnSearchChange(FilteredSuggestions[focusedSuggestion + 1].value)
    /\ showSuggestions' = FALSE
    /\ UNCHANGED focusedSuggestion

\* handleKeyDown, Escape
BarEscape ==
    /\ showSuggestions /\ Len(FilteredSuggestions) > 0
    /\ showSuggestions' = FALSE
    /\ focusedSuggestion' = -1
    /\ BarOnly

\* onFocus of the input
BarFocus ==
    /\ Len(searchTerm) > 0 /\ Len(FilteredSuggestions) > 0
    /\ ~showSuggestions
    /\ showSuggestions' = TRUE
    /\ UNCHANGED focusedSuggestion
    /\ BarOnly

\* mousedown outside the SearchBar
BarClickOutside ==
    /\ showSuggestions
    /\ showSuggestions' = FALSE
    /\ UNCHANGED focusedSuggestion
    /\ BarOnly

\* the X of the "Search:" chip: onSearchChange("")
BarChipClear ==
    /\ searchTerm # <<>>
    /\ OnSearchChange(<<>>)
    /\ UNCHANGED <<showSuggestions, focusedSuggestion>>

NextBar ==
    \/ \E value \in BarTerms : BarHandleSearchChange(value)
    \/ \E i \in 1..MaxShown : BarSuggestionClick(i)
    \/ BarArrowDown
    \/ BarArrowUp
    \/ BarEnter
    \/ BarEscape
    \/ BarFocus
    \/ BarClickOutside
    \/ BarChipClear
    \/ \E post \in BarPool : SetAllPosts(post)

SpecBar == InitBarSpec /\ [][NextBar]_vars

\* C29: whenever the dropdown is shown, focusedSuggestion is -1 or an index
\* of the current filteredSuggestions, which has at most 8 entries.
C29_FocusedSuggestionValid ==
    /\ Len(FilteredSuggestions) <= MaxShown
    /\ (showSuggestions /\ Len(FilteredSuggestions) > 0) =>
          \/ focusedSuggestion = -1
          \/ focusedSuggestion \in 0..(Len(FilteredSuggestions) - 1)


\* ------------------------------------------------------------------------
\* AuthProvider: user and userProfile
\* ------------------------------------------------------------------------

\* sign-ins, sign-outs and registrations the model follows
MaxAuthEvents == 3

\* uids; 0 stands for null, as user and as userProfile
AuthUsers == {Me, OtherUser}

InitAuth ==
    /\ InitHomeIdle
    /\ InitBar /\ InitViewIdle /\ InitLikeIdle /\ InitAccountIdle /\ InitCreateIdle
    /\ authUser = 0
    /\ userProfile = 0
    /\ profileFetches = EmptyBag
    /\ profileDocs = {Me}
    /\ authEvents = 0

\* the onAuthStateChanged callback up to its await: login, logout or a
\* switch of account
AuthStateChanged(u) ==
    /\ authEvents < MaxAuthEvents
    /\ u # authUser
    /\ u # 0 => u \in profileDocs
    /\ authEvents' = authEvents + 1
    /\ authUser' = u
    /\ IF u # 0
       THEN /\ profileFetches' = profileFetches (+) SetToBag({[kind |-> "getDoc", uid |-> u]})
            /\ UNCHANGED userProfile
       ELSE /\ userProfile' = 0
            /\ UNCHANGED profileFetches
    /\ UNCHANGED profileDocs
    /\ UNCHANGED <<homeVars, barVars, viewVars, likeVars, accountVars, createVars>>

\* register up to setDoc: createUserWithEmailAndPassword signs the new user
\* in, which also runs the onAuthStateChanged callback
Register(u) ==
    /\ authEvents < MaxAuthEvents
    /\ u # authUser
    /\ u \notin profileDocs
    /\ \A op \in BagToSet(profileFetches) : op.uid # u
    /\ authEvents' = authEvents + 1
    /\ authUser' = u
    /\ profileFetches' = profileFetches (+) SetToBag({[kind |-> "getDoc", uid |-> u]})
                                        (+) SetToBag({[kind |-> "setDoc", uid |-> u]})
    /\ UNCHANGED <<userProfile, profileDocs>>
    /\ UNCHANGED <<homeVars, barVars, viewVars, likeVars, accountVars, createVars>>

\* getDoc of the callback resolves: setUserProfile when the document exists
ProfileFetchResolves(op) ==
    /\ BagIn(op, profileFetches)
    /\ op.kind = "getDoc"
    /\ profileFetches' = profileFetches (-) SetToBag({op})
    /\ userProfile' = IF op.uid \in profileDocs THEN op.uid ELSE userProfile
    /\ UNCHANGED <<authUser, profileDocs, authEvents>>
    /\ UNCHANGED <<homeVars, barVars, viewVars, likeVars, accountVars, createVars>>

\* getDoc of the callback rejects: the catch block logs the error
ProfileFetchFails(op) ==
    /\ BagIn(op, profileFetches)
    /\ op.kind = "getDoc"
    /\ profileFetches' = profileFetches (-) SetToBag({op})
    /\ UNCHANGED <<authUser, userProfile, profileDocs, authEvents>>
    /\ UNCHANGED <<homeVars, barVars, viewVars, likeVars, accountVars, createVars>>

\* setDoc of register resolves, then setUserProfile(userProfile)
RegisterSetDocResolves(op) ==
    /\ BagIn(op, profileFetches)
    /\ op.kind = "setDoc"
    /\ profileFetches' = profileFetches (-) SetToBag({op})
    /\ profileDocs' = profileDocs \cup {op.uid}
    /\ userProfile' = op.uid
    /\ UNCHANGED <<authUser, authEvents>>
    /\ UNCHANGED <<homeVars, barVars, viewVars, likeVars, accountVars, createVars>>

\* setDoc of register rejects: register throws to its caller
RegisterSetDocFails(op) ==
    /\ BagIn(op, profileFetches)
    /\ op.kind = "setDoc"
    /\ profileFetches' = profileFetches (-) SetToBag({op})
    /\ UNCHANGED <<authUser, userProfile, profileDocs, authEvents>>
    /\ UNCHANGED <<homeVars, barVars, viewVars, likeVars, accountVars, createVars>>

NextAuth ==
    \/ \E u \in AuthUsers \cup {0} : AuthStateChanged(u)
    \/ \E u \in AuthUsers : Register(u)
    \/ \E op \in BagToSet(profileFetches) : ProfileFetchResolves(op)
    \/ \E op \in BagToSet(profileFetches) : ProfileFetchFails(op)
    \/ \E op \in BagToSet(profileFetches) : RegisterSetDocResolves(op)
    \/ \E op \in BagToSet(profileFetches) : RegisterSetDocFails(op)

SpecAuth == InitAuth /\ [][NextAuth]_vars

\* C30: userProfile is null whenever user is null, and a non-null
\* userProfile is the profile of the signed-in user.
C30_ProfileBelongsToUser ==
    /\ authUser = 0 => userProfile = 0
    /\ userProfile # 0 => userProfile = authUser

====
